---- MODULE Spec2Model ----
(***************************************************************************)
(* AICore kernel: plan normalizer and scheduler (core/kernel/planner.py),  *)
(* tool router (core/tools/tool_router.py), checkpoint store               *)
(* (core/kernel/plan_state_store.py) and the turn sequencing of            *)
(* MasterAgent.handle_chat (core/kernel/master_agent.py).                  *)
(*                                                                         *)
(* Conventions.  A Python None / absent key of a string-valued field is    *)
(* the empty string (the code tests these fields with "x or default", so   *)
(* None and "" take the same branch).  An optional dict is a sequence of   *)
(* length 0 (None) or 1.  _sha_id is the injective symbolic hash Sha: the  *)
(* string "#" \o s stands for the 16 hex digits of sha256(s), and an input *)
(* may carry such a string as an explicit id.                              *)
(***************************************************************************)
EXTENDS Integers, Sequences, FiniteSets, TLC

VARIABLES
    planObj,    \* normalize_plan: the plan object handed in (model output after _adapt_plan_obj)
    norm,       \* normalize_plan: its return value
    npc,        \* "input" before the call, "normalized" after it, "batched" after a scheduler call
    bsize,      \* get_ready_tool_batch: the batch_size argument
    batch,      \* get_ready_tool_batch: its return value
    planA,      \* the plan of a run of the batch loop with batch_size = 1
    planB,      \* the plan of a run of the batch loop with batch_size = 200
    fsNames,    \* file system: path -> inode (0: no such file)
    fsData,     \* file system: inode -> content, a sequence of chunks
    tpc,        \* per thread: position inside PlanStateStore.save
    tstate,     \* per thread: the state being saved
    tfd,        \* per thread: the inode of the open temp file (0: none)
    toff,       \* per thread: the file offset of the open temp file
    committed,  \* history: the state of the last completed os.replace, if any
    loaded,     \* the outcome of the last PlanStateStore.load
    maxActive,  \* how many threads may be inside save at once
    llmPlan,    \* the mock model's answer to the planning prompt
    hpc,        \* handle_chat: where the call stands ("idle": no call yet, "returned": it returned)
    hreq,       \* handle_chat: the arguments of the call
    hplan,      \* handle_chat: the local variable plan (None or a plan)
    hcalls,     \* handle_chat: the batch being dispatched (its calls and their steps)
    hresults,   \* ToolRouter.execute: the results appended so far for that batch
    hbatches,   \* handle_chat: tool_batches
    ckLog,      \* history: the statuses handed to _checkpoint by the current call, in order
    dispatched, \* history: the plan positions of the steps of the batch sent to a provider so far
    ckFiles,    \* the checkpoint directory: path -> saved state
    out,        \* handle_chat: the dict it returns
    turns,      \* number of handle_chat calls begun
    llmCalls,   \* history: planning calls to the model made by the current call
    sent,       \* history: <<plan id, position>> of every step handed to the router so far
    prev,       \* history: arguments and result of the call that returned just before this one
    gwActive,     \* gateway: how many request threads may run at once
    gpc,          \* gateway: where each request thread stands in do_POST
    greq,         \* gateway: the locals of each request thread and what it sent
    rateBuckets,  \* gateway: _RATE_BUCKETS, ip -> deque of admission times
    now,          \* gateway: time.time(), in seconds
    ticks,        \* number of clock advances
    chatInflight, \* gateway: _CHAT_INFLIGHT
    chatBusyTotal,    \* gateway: _CHAT_BUSY_TOTAL
    rateLimitedTotal, \* gateway: _RATE_LIMITED_TOTAL
    reqLog,       \* gateway: the request log, request id -> number of records
    nextRid,      \* the request ids handed out so far
    handled,      \* history: number of handle_chat invocations
    admitted,     \* history: <<ip, time, n>>: n requests of ip passed the limiter at that time
    convFiles,    \* MemoryOS: session file -> its lines, one turn each
    ragChunks,    \* RAGEngine: the rows of table chunks
    ragDay,       \* the local date, in days
    ragCalls,     \* number of finalize_task calls made; also the clock of time.time()
    ragSeen,      \* history: <<key, chunk_id>> of every finalize_task that returned ok
    ragLast,      \* the arguments and the return value of the last finalize_task
    mpc,          \* per chat thread: where its handle_chat stands with the conversation log
    mloc,         \* per chat thread: the locals of its add_turn (path, line)
    memLock,      \* MemoryOS._lock: the thread holding it (0: free)
    memCalls,     \* history: the add_turn calls in the order they were made; also the clock
    canonIn,      \* alias resolution: the (name, method, args) handed in
    canonOut,     \* alias resolution: what each resolver returned, if called
    bpc,          \* BrowserTools.run: where the call stands
    bhost,        \* the host of the URL urlopen is working on
    ballow,       \* BrowserTools._allowlist
    dns,          \* what getaddrinfo answers now: host -> set of addresses
    dnsChanges,   \* number of times an answer of the DNS changed
    bsent,        \* history: <<host, address>> of every request sent
    bhops,        \* number of redirects followed by urlopen
    bout,         \* BrowserTools.run: the dict it returns
    termIn,       \* TerminalTools.run: the method and args handed in
    termOut,      \* TerminalTools.run: the dict it returns, if called
    spawned,      \* history: <<argv, cwd>> of every subprocess started
    gbody,        \* gateway: the body the client sends with POST /chat
    mainPc,       \* run(): where the main thread stands
    sigFrames,    \* run(): signal handler frames on the main thread's stack
    stop_event,   \* run(): the Event of run
    shutdown_request,  \* httpd: BaseServer.__shutdown_request
    is_shut_down, \* httpd: BaseServer.__is_shut_down
    conn,         \* httpd: connection -> "none" | "backlog" | "running" | "done"
    applyIn,      \* apply_tool_results: the plan and the results handed in
    applyOut,     \* apply_tool_results: the steps after each result, if called
    psFiles,      \* PlanStateStore: path -> the state in the file, for the files there are
    psLast,       \* PlanStateStore: the last call and what it returned
    psSaved,      \* history: plan id -> the state last saved under it, until deleted
    wpc,          \* warmup: per caller thread, where it stands
    ensured,      \* warmup: per caller thread, whether its handle_chat passed the warmup call
    rpc,          \* warmup: per _run thread, where it stands
    rloc,         \* warmup: per _run thread, its locals ok, ms, err
    warmup_lock,  \* MasterAgent._warmup_lock: the thread holding it (0: free)
    warmup,       \* MasterAgent._warmup_started, _done, _ok, _ms, _error
    wChats,       \* history: number of warmup chats issued
    wSnap,        \* per caller thread: what its last warmup_status returned
    addrIn,       \* _is_blocked_ip: the address getaddrinfo returned
    addrOut       \* _is_blocked_ip: what it returned, if called

plannerVars == <<planObj, norm, npc, bsize, batch, planA, planB>>

storeVars == <<fsNames, fsData, tpc, tstate, tfd, toff, committed, loaded, maxActive>>

turnVars == <<llmPlan, hpc, hreq, hplan, hcalls, hresults, hbatches, ckLog, dispatched,
              ckFiles, out, turns, llmCalls, sent, prev>>

gatewayVars == <<gwActive, gpc, greq, rateBuckets, now, ticks, chatInflight, chatBusyTotal,
                 rateLimitedTotal, reqLog, nextRid, handled, admitted>>

memThreadVars == <<mpc, mloc, memLock, memCalls>>

memoryVars == <<convFiles, ragChunks, ragDay, ragCalls, ragSeen, ragLast, memThreadVars>>

canonVars == <<canonIn, canonOut>>

browserVars == <<bpc, bhost, ballow, dns, dnsChanges, bsent, bhops, bout>>

terminalVars == <<termIn, termOut, spawned>>

toolVars == <<canonVars, browserVars, terminalVars>>

bodyVars == <<gbody>>

serverVars == <<mainPc, sigFrames, stop_event, shutdown_request, is_shut_down, conn>>

applyVars == <<applyIn, applyOut>>

roundVars == <<psFiles, psLast, psSaved>>

warmVars == <<wpc, ensured, rpc, rloc, warmup_lock, warmup, wChats, wSnap>>

addrVars == <<addrIn, addrOut>>

otherVars == <<bodyVars, serverVars, applyVars, roundVars, warmVars, addrVars>>

\* what the planner, store, turn, gateway, memory and tool actions leave alone
notPlanner == <<storeVars, turnVars, gatewayVars, memoryVars, toolVars, otherVars>>
notStore == <<plannerVars, turnVars, gatewayVars, memoryVars, toolVars, otherVars>>
notTurn == <<plannerVars, storeVars, gatewayVars, memoryVars, toolVars, otherVars>>
notGateway == <<plannerVars, storeVars, turnVars, memoryVars, toolVars, otherVars>>
notMemory == <<plannerVars, storeVars, turnVars, gatewayVars, toolVars, otherVars>>
notTools == <<plannerVars, storeVars, turnVars, gatewayVars, memoryVars, otherVars>>
notOther == <<plannerVars, storeVars, turnVars, gatewayVars, memoryVars, toolVars>>

\* ---------------------------------------------------------------- bounds
MaxNormSteps == 3
MaxSteps == 3
NumThreads == 2
MaxTurnSteps == 2
MaxTurns == 2
MaxBatches == 3
MaxRequests == 5
MaxRateRequests == 4
MaxTicks == 2
SeenClients == 4998
MaxKeyRequests == 30

\* ------------------------------------------------------- program constants
MAX_STEPS_HARD == 10000
MAX_BATCH_SIZE == 200
CHAT_BATCH_SIZE == 25
MAX_CHAT_INFLIGHT == 4
RATE_LIMIT_WINDOW_S == 60
RATE_LIMIT_MAX == 30

\* ------------------------------------------------------------ primitives
Sha(s) == "#" \o s

Range(f) == {f[i] : i \in DOMAIN f}

NoResult == <<>>

NoTool == [name |-> "", method |-> ""]

\* float(x) of a present created_ts: the numeric strings convert, others raise ValueError
FloatRaises(ts) == ts # "" /\ ts \notin {"1.5"}

\* ------------------------------------------------------------- normalizer
NormalizeTool(tool_obj) ==
    [name |-> tool_obj.name, method |-> tool_obj.method]

StepType(t) == IF t \in {"tool", "llm", "note"} THEN t ELSE "note"

StepStatus(st) == IF st \in {"pending", "done", "failed", "skipped"} THEN st ELSE "pending"

\* the loop body of _normalize_full_plan for the dict at 0-based index i
NormStep(s, i, plan_id, seen) ==
    LET sid0 == IF s.id # "" THEN s.id
                ELSE Sha(plan_id \o "|" \o ToString(i) \o "|" \o s.title)
        sid  == IF sid0 \in seen THEN Sha(sid0 \o ToString(i)) ELSE sid0
        stype == StepType(s.type)
    IN  [id         |-> sid,
         title      |-> IF s.title # "" THEN s.title ELSE "step-" \o ToString(i),
         type       |-> stype,
         depends_on |-> s.depends_on,
         tool       |-> IF stype = "tool" THEN NormalizeTool(s.tool) ELSE NoTool,
         status     |-> StepStatus(s.status),
         result     |-> s.result]

RECURSIVE NormSteps(_, _, _, _, _)
NormSteps(steps_in, k, plan_id, seen, acc) ==
    IF k > Len(steps_in) THEN acc
    ELSE IF ~steps_in[k].is_dict
         THEN NormSteps(steps_in, k + 1, plan_id, seen, acc)
         ELSE LET st == NormStep(steps_in[k], k - 1, plan_id, seen)
              IN  NormSteps(steps_in, k + 1, plan_id, seen \cup {st.id}, Append(acc, st))

NoPlan == [has_steps |-> FALSE, plan_id |-> "", goal |-> "", status |-> "", steps |-> <<>>]

Fail(err) == [ok |-> FALSE, error |-> err, plan |-> NoPlan]

NormalizeFullPlan(obj, goal_fallback) ==
    LET plan_id == IF obj.plan_id # "" THEN obj.plan_id ELSE Sha(ToString(obj))
        goal    == IF obj.goal # "" THEN obj.goal
                   ELSE IF goal_fallback # "" THEN goal_fallback ELSE "task"
    IN  IF FloatRaises(obj.created_ts) THEN Fail("PLANNER_NORMALIZE_EXCEPTION")
        ELSE IF obj.steps_kind # "list" THEN Fail("INVALID_STEPS")
        ELSE IF Len(obj.steps) > MAX_STEPS_HARD THEN Fail("TOO_MANY_STEPS")
        ELSE [ok    |-> TRUE,
              error |-> "",
              plan  |-> [has_steps |-> TRUE,
                         plan_id   |-> plan_id,
                         goal      |-> goal,
                         status    |-> IF obj.status # "" THEN obj.status ELSE "new",
                         steps     |-> NormSteps(obj.steps, 1, plan_id, {}, <<>>)]]


\* new_plan(goal) at clock reading ts: the id hashes the goal and the time
NewPlan(goal, ts) ==
    [has_steps |-> TRUE, plan_id |-> Sha(goal \o "|" \o ts), goal |-> goal,
     status |-> "new", steps |-> <<>>]

ToolCallStep(c, i, plan_id) ==
    LET tool == NormalizeTool(c)
    IN  [id         |-> Sha(plan_id \o "|tool|" \o ToString(i) \o "|" \o tool.name \o "|" \o tool.method),
         title      |-> "tool:" \o tool.name \o ":" \o tool.method,
         type       |-> "tool",
         depends_on |-> <<>>,
         tool       |-> tool,
         status     |-> "pending",
         result     |-> NoResult]

FinalResult(text) ==
    [ok |-> FALSE, name |-> "", method |-> "", error |-> "", step_id |-> <<>>,
     origin |-> "final:" \o text]

NormalizeToolcallsPlan(obj, goal_fallback, ts) ==
    LET goal  == IF obj.goal # "" THEN obj.goal
                 ELSE IF goal_fallback # "" THEN goal_fallback ELSE "task"
        base  == NewPlan(goal, ts)
        tc    == IF obj.tool_calls_kind = "list" THEN obj.tool_calls ELSE <<>>
        steps == [k \in 1..Len(tc) |-> ToolCallStep(tc[k], k - 1, base.plan_id)]
        final == [id         |-> Sha(base.plan_id \o "|note|final"),
                  title      |-> "final",
                  type       |-> "note",
                  depends_on |-> [k \in 1..Len(steps) |-> steps[k].id],
                  tool       |-> NoTool,
                  status     |-> IF Len(steps) > 0 THEN "pending" ELSE "done",
                  result     |-> IF obj.final # "" THEN <<FinalResult(obj.final)>> ELSE NoResult]
    IN  [ok |-> TRUE, error |-> "",
         plan |-> [base EXCEPT !.steps = Append(steps, final)]]

NormalizePlan(obj, goal_fallback, ts) ==
    IF ~obj.is_dict THEN Fail("UNSUPPORTED_PLAN_FORMAT")
    ELSE IF obj.steps_kind # "absent" THEN NormalizeFullPlan(obj, goal_fallback)
    ELSE IF obj.tool_calls_kind # "absent" THEN NormalizeToolcallsPlan(obj, goal_fallback, ts)
    ELSE Fail("UNSUPPORTED_PLAN_FORMAT")

\* -------------------------------------------------------------- scheduler
DoneIds(steps) == {steps[k].id : k \in {j \in 1..Len(steps) : steps[j].status = "done"}}

\* mutant: readiness does not look at depends_on
StepReadyAnyDeps(steps, k) ==
    /\ steps[k].status = "pending"
    /\ steps[k].type = "tool"

StepReady(steps, k) ==
    /\ steps[k].status = "pending"
    /\ steps[k].type = "tool"
    /\ \A d \in Range(steps[k].depends_on) : d \in DoneIds(steps)

\* positions of pending_tool_steps, in the order the loop appends them
RECURSIVE PendingToolSteps(_, _, _)
PendingToolSteps(steps, k, acc) ==
    IF k > Len(steps) THEN acc
    ELSE PendingToolSteps(steps, k + 1,
                          IF StepReady(steps, k) THEN Append(acc, k) ELSE acc)

Min(a, b) == IF a < b THEN a ELSE b
Max(a, b) == IF a > b THEN a ELSE b

\* mutant: the slice stops one short
BatchSliceShort(ready, batch_size) == SubSeq(ready, 1, Min(batch_size - 1, Len(ready)))

BatchSlice(ready, batch_size) == SubSeq(ready, 1, Min(batch_size, Len(ready)))

NoBatch(err) == [ok |-> FALSE, error |-> err, tool_calls |-> <<>>, remaining |-> 0, pos |-> <<>>]

\* pos is not a field of the Python result: it records which step each call was built from
GetReadyToolBatch(plan, batch_size) ==
    IF ~plan.has_steps THEN NoBatch("INVALID_PLAN")
    ELSE IF batch_size <= 0 \/ batch_size > MAX_BATCH_SIZE THEN NoBatch("INVALID_BATCH_SIZE")
    ELSE LET ready == PendingToolSteps(plan.steps, 1, <<>>)
             taken == BatchSlice(ready, batch_size)
         IN  [ok         |-> TRUE,
              error      |-> "",
              tool_calls |-> [k \in 1..Len(taken) |->
                                [name     |-> plan.steps[taken[k]].tool.name,
                                 method   |-> plan.steps[taken[k]].tool.method,
                                 step_id  |-> plan.steps[taken[k]].id]],
              remaining  |-> Max(0, Len(ready) - Len(taken)),
              pos        |-> taken]

\* idx = {s["id"]: s for s in steps}: a later step with the same id replaces an earlier one
IdxPos(steps, id) ==
    LET hits == {k \in 1..Len(steps) : steps[k].id = id}
    IN  IF hits = {} THEN 0 ELSE CHOOSE k \in hits : \A j \in hits : j <= k

FallbackPos(steps, r) ==
    LET hits == {k \in 1..Len(steps) :
                    /\ steps[k].status = "pending" /\ steps[k].type = "tool"
                    /\ steps[k].tool.name = r.name /\ steps[k].tool.method = r.method}
    IN  IF hits = {} THEN 0 ELSE CHOOSE k \in hits : \A j \in hits : k <= j

ApplyOne(steps, r) ==
    LET byId   == IF r.step_id # <<>> THEN IdxPos(steps, r.step_id[1]) ELSE 0
        target == IF byId # 0 THEN byId ELSE FallbackPos(steps, r)
    IN  IF target = 0 THEN steps
        ELSE [steps EXCEPT ![target].result = <<r>>,
                           ![target].status = IF r.ok THEN "done" ELSE "failed"]

RECURSIVE ApplySteps(_, _, _)
ApplySteps(steps, tool_results, k) ==
    IF k > Len(tool_results) THEN steps
    ELSE ApplySteps(ApplyOne(steps, tool_results[k]), tool_results, k + 1)

ApplyToolResults(plan, tool_results) ==
    IF ~plan.has_steps THEN plan
    ELSE [plan EXCEPT !.steps = ApplySteps(plan.steps, tool_results, 1)]

\* ------------------------------------------------------------ tool router
RegisteredTools == {"browser", "file", "terminal", "audio", "video", "echo", "ping"}

\* tool.run(method, args): PingTool returns a dict for every method; EchoTool has no
\* run method, so the attribute lookup raises
ProviderRaises(name, method) == name = "echo"

\* the error that the dict returned by tool.run carries, "" when it carries none: the
\* browser calls of the model name a host in a private range, and no allowlist is set
ProviderError(name, method) ==
    IF name = "browser"
    THEN IF method = "http_get" THEN "LAN_HOST_NOT_ALLOWLISTED" ELSE "UNKNOWN_METHOD"
    ELSE ""

\* ToolRouter.execute for one call: whatever tool.run returns is wrapped with ok = True
RouterResult(call) ==
    LET base == [ok |-> FALSE, name |-> call.name, method |-> call.method, error |-> "",
                 step_id |-> <<>>, origin |-> "router", provider_error |-> ""]
    IN  IF call.name = "" \/ call.method = "" THEN [base EXCEPT !.error = "INVALID_TOOL_CALL"]
        ELSE IF call.name \notin RegisteredTools THEN [base EXCEPT !.error = "UNKNOWN_TOOL"]
        ELSE IF ProviderRaises(call.name, call.method) THEN [base EXCEPT !.error = "TOOL_EXCEPTION"]
        ELSE [base EXCEPT !.ok = TRUE,
                          !.provider_error = ProviderError(call.name, call.method)]

RouterExecute(tool_calls) == [k \in 1..Len(tool_calls) |-> RouterResult(tool_calls[k])]


\* --------------------------------------------------------- checkpoint store
Threads == 1..NumThreads

\* PlanStateStore.path_for: <root>/<sanitized id>.json; the ids of the model stand for
\* ids made of the characters path_for keeps (a hash is a hex digest)
PathFor(plan_id) == (IF plan_id = "" THEN "plan" ELSE plan_id) \o ".json"

\* mutant: the data is written to the target itself
TmpPathInPlace(path) == path

\* _atomic_write_json: tmp = path + ".tmp"
TmpPath(path) == path \o ".tmp"

StorePlanIds == {"P"}

Paths == {PathFor(p) : p \in StorePlanIds} \cup {TmpPath(PathFor(p)) : p \in StorePlanIds}

Inodes == 1..(NumThreads + Cardinality(Paths))

\* the wrapped states two turns on plan P hand to save: their JSON texts differ in length
StoreStates ==
    {[plan_id |-> "P", status |-> "running", size |-> 2],
     [plan_id |-> "P", status |-> "done", size |-> 1]}

\* json.dumps(state).encode(): the bytes, in chunks as they reach the file
StateData(st) == [k \in 1..st.size |-> <<st, k>>]

NoState == <<>>

Referenced(names, fds) == {names[n] : n \in Paths} \cup {fds[t] : t \in Threads}

\* the content of an inode no name and no descriptor refers to is gone
Reclaim(names, fds, data) ==
    [i \in Inodes |-> IF i \in Referenced(names, fds) THEN data[i] ELSE <<>>]

FreeInode(names, fds) ==
    CHOOSE i \in Inodes : /\ i \notin Referenced(names, fds)
                          /\ \A j \in Inodes : j \notin Referenced(names, fds) => i <= j

\* write(2) of one chunk at offset off
WriteAt(content, off, chunk) ==
    IF off < Len(content) THEN [content EXCEPT ![off + 1] = chunk]
    ELSE [k \in 1..(off + 1) |->
            IF k <= Len(content) THEN content[k] ELSE IF k = off + 1 THEN chunk ELSE <<"hole">>]

StoreUnused ==
    /\ fsNames = [n \in Paths |-> 0]
    /\ fsData = [i \in Inodes |-> <<>>]
    /\ tpc = [t \in Threads |-> "idle"]
    /\ tstate = [t \in Threads |-> NoState]
    /\ tfd = [t \in Threads |-> 0]
    /\ toff = [t \in Threads |-> 0]
    /\ committed = NoState
    /\ loaded = [ok |-> FALSE, error |-> "NOT_CALLED", state |-> NoState]
    /\ maxActive = 0

Active == {t \in Threads : tpc[t] # "idle"}

\* save: _validate_state, path_for, then _atomic_write_json up to open(tmp, "wb"),
\* which creates the temp file or truncates the one that is there
SaveOpen(t, st) ==
    LET tmp == TmpPath(PathFor(st.plan_id))
        ino == IF fsNames[tmp] # 0 THEN fsNames[tmp] ELSE FreeInode(fsNames, tfd)
    IN  /\ tpc[t] = "idle"
        /\ Cardinality(Active) < maxActive
        /\ tpc' = [tpc EXCEPT ![t] = "writing"]
        /\ tstate' = [tstate EXCEPT ![t] = <<st>>]
        /\ tfd' = [tfd EXCEPT ![t] = ino]
        /\ toff' = [toff EXCEPT ![t] = 0]
        /\ fsNames' = [fsNames EXCEPT ![tmp] = ino]
        /\ fsData' = [fsData EXCEPT ![ino] = <<>>]
        /\ UNCHANGED <<committed, loaded, maxActive, notStore>>

\* f.write / f.flush: the next chunk of the data reaches the file at the descriptor's offset
SaveWrite(t) ==
    /\ tpc[t] = "writing"
    /\ toff[t] < tstate[t][1].size
    /\ fsData' = [fsData EXCEPT ![tfd[t]] =
                    WriteAt(fsData[tfd[t]], toff[t], StateData(tstate[t][1])[toff[t] + 1])]
    /\ toff' = [toff EXCEPT ![t] = toff[t] + 1]
    /\ UNCHANGED <<fsNames, tpc, tstate, tfd, committed, loaded, maxActive, notStore>>

\* os.fsync and the end of the with block: the descriptor is closed
SaveClose(t) ==
    /\ tpc[t] = "writing"
    /\ toff[t] = tstate[t][1].size
    /\ tpc' = [tpc EXCEPT ![t] = "closed"]
    /\ tfd' = [tfd EXCEPT ![t] = 0]
    /\ fsData' = Reclaim(fsNames, tfd', fsData)
    /\ UNCHANGED <<fsNames, tstate, toff, committed, loaded, maxActive, notStore>>

\* os.replace(tmp, path): atomic rename, FileNotFoundError when tmp is gone
SaveReplace(t) ==
    LET path == PathFor(tstate[t][1].plan_id)
        tmp  == TmpPath(path)
    IN  /\ tpc[t] = "closed"
        /\ IF fsNames[tmp] = 0
           THEN /\ tpc' = [tpc EXCEPT ![t] = "error"]
                /\ UNCHANGED <<fsNames, fsData, committed>>
           ELSE /\ tpc' = [tpc EXCEPT ![t] = "saved"]
                /\ fsNames' = [n \in Paths |->
                                 IF n = path THEN fsNames[tmp]
                                 ELSE IF n = tmp THEN 0 ELSE fsNames[n]]
                /\ fsData' = Reclaim(fsNames', tfd, fsData)
                /\ committed' = tstate[t]
        /\ UNCHANGED <<tstate, tfd, toff, loaded, maxActive, notStore>>

\* save returns its SaveResult, or the exception leaves it
SaveReturn(t) ==
    /\ tpc[t] \in {"saved", "error"}
    /\ tpc' = [tpc EXCEPT ![t] = "idle"]
    /\ tstate' = [tstate EXCEPT ![t] = NoState]
    /\ UNCHANGED <<fsNames, fsData, tfd, toff, committed, loaded, maxActive, notStore>>

\* the process is killed: every thread and descriptor is gone, the files stay as they are
Kill ==
    /\ Active # {}
    /\ tpc' = [t \in Threads |-> "idle"]
    /\ tstate' = [t \in Threads |-> NoState]
    /\ tfd' = [t \in Threads |-> 0]
    /\ toff' = [t \in Threads |-> 0]
    /\ fsData' = Reclaim(fsNames, tfd', fsData)
    /\ UNCHANGED <<fsNames, committed, loaded, maxActive, notStore>>

\* json.loads of the file's bytes: the state whose complete text they are, if any
Parse(content) ==
    LET hits == {st \in StoreStates : StateData(st) = content}
    IN  IF hits = {} THEN NoState ELSE <<CHOOSE st \in hits : TRUE>>

\* PlanStateStore.load
Load(plan_id) ==
    LET path == PathFor(plan_id)
    IN  /\ loaded' =
              IF fsNames[path] = 0
              THEN [ok |-> FALSE, error |-> "FileNotFoundError", state |-> NoState]
              ELSE IF Parse(fsData[fsNames[path]]) = NoState
              THEN [ok |-> FALSE, error |-> "JSONDecodeError", state |-> NoState]
              ELSE [ok |-> TRUE, error |-> "", state |-> Parse(fsData[fsNames[path]])]
        /\ UNCHANGED <<fsNames, fsData, tpc, tstate, tfd, toff, committed, maxActive, notStore>>

InitStoreWith(n) ==
    /\ fsNames = [p \in Paths |-> 0]
    /\ fsData = [i \in Inodes |-> <<>>]
    /\ tpc = [t \in Threads |-> "idle"]
    /\ tstate = [t \in Threads |-> NoState]
    /\ tfd = [t \in Threads |-> 0]
    /\ toff = [t \in Threads |-> 0]
    /\ committed = NoState
    /\ loaded = [ok |-> FALSE, error |-> "NOT_CALLED", state |-> NoState]
    /\ maxActive = n

\* ------------------------------------------------- normalize_plan, inputs
PingTool == [name |-> "ping", method |-> "get"]

\* a result dict that the model output itself carries on a step
InputResult ==
    [ok |-> TRUE, name |-> "ping", method |-> "get", error |-> "", step_id |-> <<>>,
     origin |-> "input", provider_error |-> ""]

RawStep(id, type, deps, status, result) ==
    [is_dict |-> TRUE, id |-> id, title |-> "", type |-> type, depends_on |-> deps,
     tool |-> IF type = "tool" THEN PingTool ELSE NoTool, status |-> status, result |-> result]

NonDictStep == [RawStep("", "", <<>>, "", NoResult) EXCEPT !.is_dict = FALSE]

NormIdChoices == {"", "a", Sha("a2")}

NormDepChoices == {<<>>, <<"a">>, <<"z">>}

NormStatusChoices == {<<"", NoResult>>, <<"done", NoResult>>, <<"done", <<InputResult>>>>}

NormRawSteps ==
    {RawStep(id, type, deps, sr[1], sr[2]) :
        id \in NormIdChoices, type \in {"tool", "note"}, deps \in NormDepChoices,
        sr \in NormStatusChoices}

FullObj(steps) ==
    [is_dict |-> TRUE, steps_kind |-> "list", steps |-> steps,
     tool_calls_kind |-> "absent", tool_calls |-> <<>>,
     plan_id |-> "", goal |-> "", status |-> "", created_ts |-> "", final |-> ""]

ToolCallsObj(calls, final) ==
    [FullObj(<<>>) EXCEPT !.steps_kind = "absent", !.tool_calls_kind = "list",
                          !.tool_calls = calls, !.final = final]

OddObjs ==
    {[FullObj(<<>>) EXCEPT !.is_dict = FALSE],
     [FullObj(<<>>) EXCEPT !.steps_kind = "nonlist"],
     [FullObj(<<>>) EXCEPT !.steps_kind = "absent"],
     [FullObj(<<>>) EXCEPT !.created_ts = "abc"],
     [FullObj(<<>>) EXCEPT !.created_ts = "1.5", !.plan_id = "P"],
     FullObj(<<NonDictStep, RawStep("a", "tool", <<>>, "", NoResult)>>),
     ToolCallsObj(<<>>, "hi"),
     ToolCallsObj(<<PingTool>>, "done"),
     ToolCallsObj(<<PingTool, [name |-> "echo", method |-> "echo"]>>, ""),
     [ToolCallsObj(<<>>, "") EXCEPT !.tool_calls_kind = "nonlist"]}

\* ---------------------------------------------------------- gateway, state
\* one request thread more than there are slots
NumWorkers == MAX_CHAT_INFLIGHT + 1

Workers == 1..NumWorkers

\* the locals of do_POST before the try block, with the clock value that _rate_limit_ok
\* reads before it takes the lock; responses lists what _send_json sent
NewRequest(rid, ip, t) ==
    [request_id |-> rid, ip |-> ip, now |-> t, acquired |-> FALSE, status |-> 500,
     responses |-> <<>>]

NoRequest == NewRequest(0, "", 0)

\* while dq and (now - dq[0]) > RATE_LIMIT_WINDOW_S: dq.popleft()
RECURSIVE Purge(_, _)
Purge(dq, t) ==
    IF dq # <<>> /\ (t - dq[1]) > RATE_LIMIT_WINDOW_S THEN Purge(Tail(dq), t) ELSE dq

\* mutant: the limiter admits one request more
RateFullLate(dq) == Len(dq) >= RATE_LIMIT_MAX + 1

\* len(dq) >= RATE_LIMIT_MAX
RateFull(dq) == Len(dq) >= RATE_LIMIT_MAX

\* _rate_limit_ok(ip) at time t, with the map it leaves behind
RateLimitOk(buckets, ip, t) ==
    LET dq0 == IF ip \in DOMAIN buckets THEN buckets[ip] ELSE <<>>
        dq  == Purge(dq0, t)
    IN  IF RateFull(dq)
        THEN [ok |-> FALSE,
              retry_after |-> Max(1, RATE_LIMIT_WINDOW_S - (t - dq[1])),
              buckets |-> (ip :> dq) @@ buckets]
        ELSE [ok |-> TRUE,
              retry_after |-> 0,
              buckets |-> (ip :> Append(dq, t)) @@ buckets]

\* Handler._send_json: status, the X-Request-Id header, the payload and the extra headers
\* mutant: the response does not carry the id of its request
ResponseAnonymous(status, request_id, payload, extra_headers) ==
    [status |-> status, x_request_id |-> 0, payload |-> payload, headers |-> extra_headers]

Response(status, request_id, payload, extra_headers) ==
    [status |-> status, x_request_id |-> request_id, payload |-> payload,
     headers |-> extra_headers]

ErrorPayload(error) == [ok |-> FALSE, error |-> error]

NoHeaders == [Retry_After |-> <<>>]

\* _append_jsonl of the record of one request; of the record's fields the model keeps the
\* request_id, and counts the records that carry it
AppendLog(log, rid) ==
    LET old == {e \in log : e[1] = rid}
    IN  IF old = {} THEN log \cup {<<rid, 1>>}
        ELSE (log \ old) \cup {<<rid, (CHOOSE e \in old : TRUE)[2] + 1>>}

RecordAdmitted(adm, ip, t) ==
    LET old == {e \in adm : e[1] = ip /\ e[2] = t}
    IN  IF old = {} THEN adm \cup {<<ip, t, 1>>}
        ELSE (adm \ old) \cup {<<ip, t, (CHOOSE e \in old : TRUE)[3] + 1>>}

GatewayUnused ==
    /\ gwActive = 0
    /\ gpc = [w \in Workers |-> "unused"]
    /\ greq = [w \in Workers |-> NoRequest]
    /\ rateBuckets = <<>>
    /\ now = 0
    /\ ticks = 0
    /\ chatInflight = 0
    /\ chatBusyTotal = 0
    /\ rateLimitedTotal = 0
    /\ reqLog = {}
    /\ nextRid = 0
    /\ handled = 0
    /\ admitted = {}

\* ------------------------------------------------------- handle_chat, state
\* the out dict as handle_chat builds it before the try block; details is the set of the
\* keys of out["details"], empty for None
NewOut ==
    [ok |-> FALSE, error |-> "", details |-> {}, final |-> "", checkpoint |-> "",
     tool_results |-> <<>>, tool_batches |-> 0, tool_calls_count |-> 0]

NoReq == [message |-> "", session_ok |-> TRUE, ctx_ok |-> FALSE, plan_id |-> ""]

NoLLM == [kind |-> "none", obj |-> FullObj(<<>>), final |-> ""]

NoPrev == [valid |-> FALSE, req |-> NoReq, out |-> NewOut, plan |-> <<>>]

TurnUnused ==
    /\ llmPlan = NoLLM
    /\ hpc = "unused"
    /\ hreq = NoReq
    /\ hplan = <<>>
    /\ hcalls = NoBatch("NOT_CALLED")
    /\ hresults = <<>>
    /\ hbatches = 0
    /\ ckLog = <<>>
    /\ dispatched = <<>>
    /\ ckFiles = {}
    /\ out = NewOut
    /\ turns = 0
    /\ llmCalls = 0
    /\ sent = {}
    /\ prev = NoPrev

\* finalize_task not called yet
NoFinalize ==
    [key |-> <<>>, ok |-> FALSE, error |-> "NOT_CALLED", chunk_id |-> <<>>, again |-> FALSE]

MemoryUnused ==
    /\ convFiles = <<>>
    /\ ragChunks = {}
    /\ ragDay = 0
    /\ ragCalls = 0
    /\ ragSeen = {}
    /\ ragLast = NoFinalize
    /\ mpc = <<>>
    /\ mloc = <<>>
    /\ memLock = 0
    /\ memCalls = <<>>

\* a str is the sequence of its characters; anything else is no str
NoStr == [is_str |-> FALSE, chars |-> <<>>]

CanonUnused ==
    /\ canonIn = [name |-> NoStr, method |-> NoStr, args |-> [is_dict |-> FALSE, keys |-> {}]]
    /\ canonOut = <<>>

BrowserUnused ==
    /\ bpc = "unused"
    /\ bhost = <<>>
    /\ ballow = <<>>
    /\ dns = <<>>
    /\ dnsChanges = 0
    /\ bsent = {}
    /\ bhops = 0
    /\ bout = [ok |-> FALSE, error |-> "", url |-> <<>>]

NoCmd == [kind |-> "none", argv |-> <<>>]

TerminalUnused ==
    /\ termIn = [method |-> "", cmd |-> NoCmd,
                 cwd |-> [kind |-> "none", abs |-> FALSE, segs |-> <<>>],
                 timeout_sec |-> 0, env |-> "none"]
    /\ termOut = <<>>
    /\ spawned = {}

ToolsUnused == CanonUnused /\ BrowserUnused /\ TerminalUnused

\* Content-Length 0: the body is taken to be {}
NoBody ==
    [clen |-> 0, json |-> "dict", has_message |-> FALSE, message_is_str |-> FALSE,
     message_len |-> 0, session_id_ok |-> TRUE, plan_id_ok |-> TRUE]

BodyUnused == gbody = <<>>

ServerUnused ==
    /\ mainPc = "unused"
    /\ sigFrames = 0
    /\ stop_event = FALSE
    /\ shutdown_request = FALSE
    /\ is_shut_down = FALSE
    /\ conn = <<>>

ApplyUnused == applyIn = <<>> /\ applyOut = <<>>

NoCall == [op |-> "none", plan_id |-> <<>>, ok |-> FALSE, error |-> "", state |-> <<>>]

RoundUnused == psFiles = <<>> /\ psLast = NoCall /\ psSaved = <<>>

\* the fields as __init__ sets them; error "" stands for None
WarmupInitial == [started |-> FALSE, done |-> FALSE, ok |-> FALSE, ms |-> 0, error |-> ""]

WarmUnused ==
    /\ wpc = <<>>
    /\ ensured = <<>>
    /\ rpc = <<>>
    /\ rloc = <<>>
    /\ warmup_lock = 0
    /\ warmup = WarmupInitial
    /\ wChats = 0
    /\ wSnap = <<>>

AddrUnused == addrIn = <<>> /\ addrOut = <<>>

OthersUnused ==
    BodyUnused /\ ServerUnused /\ ApplyUnused /\ RoundUnused /\ WarmUnused /\ AddrUnused

NotCalled == Fail("NOT_CALLED")

InitNormalize ==
    /\ StoreUnused
    /\ TurnUnused
    /\ MemoryUnused
    /\ ToolsUnused
    /\ OthersUnused
    /\ GatewayUnused
    /\ bsize = 0 /\ batch = NoBatch("NOT_CALLED") /\ planA = NoPlan /\ planB = NoPlan
    /\ \/ \E n \in 0..MaxNormSteps : \E st \in [1..n -> NormRawSteps] : planObj = FullObj(st)
       \/ planObj \in OddObjs
    /\ norm = NotCalled
    /\ npc = "input"

Normalize ==
    /\ npc = "input"
    /\ norm' = NormalizePlan(planObj, "msg", "t0")
    /\ npc' = "normalized"
    /\ UNCHANGED <<planObj, bsize, batch, planA, planB, notPlanner>>

NextNormalize == Normalize

vars == <<plannerVars, storeVars, turnVars, gatewayVars, memoryVars, toolVars, otherVars>>

SpecNormalize == InitNormalize /\ [][NextNormalize]_vars

\* ----------------------------------------------------- normalize_plan, claims
Produced == npc = "normalized" /\ norm.ok

PSteps == norm.plan.steps

\* C3: a tool step has status done only if it holds a result with ok=true that the
\* router returned for that step
C3_DoneNeedsRouterResult ==
    Produced =>
        \A k \in 1..Len(PSteps) :
            (PSteps[k].type = "tool" /\ PSteps[k].status = "done") =>
                /\ PSteps[k].result # NoResult
                /\ PSteps[k].result[1].ok
                /\ PSteps[k].result[1].origin = "router"

\* C4: all step ids of a produced plan are pairwise different
C4_StepIdsUnique ==
    Produced =>
        \A j, k \in 1..Len(PSteps) : j # k => PSteps[j].id # PSteps[k].id

StepIds(steps) == {steps[k].id : k \in 1..Len(steps)}

\* C5: every id listed in a depends_on of a produced plan is the id of a step of that plan
C5_DepsExist ==
    Produced =>
        \A k \in 1..Len(PSteps) :
            \A d \in Range(PSteps[k].depends_on) : d \in StepIds(PSteps)

\* ids reachable from id x over depends_on edges in at most n hops
RECURSIVE DepReach(_, _, _)
DepReach(steps, from, n) ==
    IF n = 0 THEN from
    ELSE LET next == UNION {Range(steps[k].depends_on) :
                                k \in {j \in 1..Len(steps) : steps[j].id \in from}}
         IN  DepReach(steps, from \cup next, n - 1)

OnCycle(steps, k) ==
    steps[k].id \in DepReach(steps, Range(steps[k].depends_on), Len(steps))

\* C6: no produced plan has a cycle of depends_on edges, self-dependency included
C6_NoCycle ==
    Produced => \A k \in 1..Len(PSteps) : ~OnCycle(PSteps, k)


\* --------------------------------------------- the batch loop of handle_chat
\* MasterAgent._canonicalize_tool_call
CanonicalizeToolCall(name, method) ==
    LET m == IF name = "browser" /\ method \in {"fetch", "get", "get_url", "download", "httpget"}
                  THEN "http_get"
             ELSE IF name = "terminal" /\ method \in {"exec", "run", "cmd"} THEN "run_cmd"
             ELSE IF name = "file" /\ method = "read" THEN "read_text"
             ELSE IF name = "file" /\ method = "write" THEN "write_text"
             ELSE IF name = "file" /\ method \in {"ls", "dir"} THEN "list_dir"
             ELSE IF name = "file" /\ method = "mkdir" THEN "mkdirs"
             ELSE method
    IN  [name |-> name, method |-> m]

RouterCalls(calls) ==
    [k \in 1..Len(calls) |-> CanonicalizeToolCall(calls[k].name, calls[k].method)]

\* mutant: every result is tagged with the id of the first step of the batch
TagResultsFirst(results, calls) ==
    [k \in 1..Len(results) |->
        IF k <= Len(calls) THEN [results[k] EXCEPT !.step_id = <<calls[1].step_id>>]
        ELSE results[k]]

\* results[i]["_step_id"] = step_ids[i] for i < min(len(results), len(step_ids))
TagResults(results, calls) ==
    [k \in 1..Len(results) |->
        IF k <= Len(calls) THEN [results[k] EXCEPT !.step_id = <<calls[k].step_id>>]
        ELSE results[k]]

\* one pass of the while loop for a batch that is ok and not empty
LoopBody(plan, b) ==
    ApplyToolResults(plan, TagResults(RouterExecute(RouterCalls(b.tool_calls)), b.tool_calls))

\* mutant: the loop is left before its first batch
LoopContinuesNever(b) == FALSE

LoopContinues(b) == b.ok /\ b.tool_calls # <<>>

\* ---------------------------------------------------- scheduler, inputs
IdPool == <<"a", "b", "c", "d", "e">>

EchoTool == [name |-> "echo", method |-> "echo"]

\* <<type, status, tool>>
SchedKinds ==
    {<<"tool", "", PingTool>>, <<"tool", "", EchoTool>>, <<"tool", "done", PingTool>>,
     <<"note", "", NoTool>>, <<"note", "done", NoTool>>}

SchedDepChoices == {<<>>, <<"a">>, <<"a", "b">>}

SchedStep(k, kind, deps) ==
    [RawStep(IdPool[k], kind[1], deps, kind[2], NoResult) EXCEPT !.tool = kind[3]]

SchedChoices == SchedKinds \X SchedDepChoices

SchedObj(n, ch) == FullObj([k \in 1..n |-> SchedStep(k, ch[k][1], ch[k][2])])

\* plans in which the rewritten duplicate id meets an id already present
CollisionObjs ==
    {FullObj(<<RawStep("a", "tool", <<>>, "", NoResult),
               RawStep(Sha("a2"), t, <<>>, st, NoResult),
               RawStep("a", "tool", <<>>, "", NoResult)>>) :
        t \in {"tool", "note"}, st \in {"", "done"}}

InitSched ==
    \/ \E n \in 0..MaxSteps : \E ch \in [1..n -> SchedChoices] : planObj = SchedObj(n, ch)
    \/ planObj \in CollisionObjs

\* ------------------------------------------ get_ready_tool_batch as a function
BatchSizeChoices == {1, 2, MAX_BATCH_SIZE, MAX_BATCH_SIZE + 1}

InitReady ==
    /\ StoreUnused
    /\ TurnUnused
    /\ MemoryUnused
    /\ ToolsUnused
    /\ OthersUnused
    /\ GatewayUnused
    /\ InitSched
    /\ norm = NormalizePlan(planObj, "msg", "t0")
    /\ npc = "normalized"
    /\ bsize \in BatchSizeChoices
    /\ batch = NoBatch("NOT_CALLED")
    /\ planA = NoPlan /\ planB = NoPlan

ReadyBatch ==
    /\ npc = "normalized"
    /\ batch' = GetReadyToolBatch(norm.plan, bsize)
    /\ npc' = "batched"
    /\ UNCHANGED <<planObj, norm, bsize, planA, planB, notPlanner>>

NextReady == ReadyBatch

SpecReady == InitReady /\ [][NextReady]_vars

\* steps that are ready by the definition: pending, of type tool, every dependency
\* the id of a step that is done
ReadySet(steps) ==
    {k \in 1..Len(steps) :
        /\ steps[k].status = "pending"
        /\ steps[k].type = "tool"
        /\ \A i \in 1..Len(steps[k].depends_on) :
              \E j \in 1..Len(steps) :
                  steps[j].id = steps[k].depends_on[i] /\ steps[j].status = "done"}

\* C2: for 1 <= n <= 200 the batch is ok and holds exactly the first n ready steps in
\* plan order, each call carrying its step's id, and remaining counts the ready steps
\* left out
C2_BatchIsFirstReadySteps ==
    (npc = "batched" /\ bsize >= 1 /\ bsize <= 200) =>
        LET steps == norm.plan.steps
            ready == ReadySet(steps)
            taken == Range(batch.pos)
        IN  /\ batch.ok
            /\ Len(batch.tool_calls) = Len(batch.pos)
            /\ Len(batch.pos) = Min(bsize, Cardinality(ready))
            /\ taken \subseteq ready
            /\ \A i, j \in 1..Len(batch.pos) : i < j => batch.pos[i] < batch.pos[j]
            /\ \A r \in ready \ taken : \A t \in taken : t < r
            /\ \A i \in 1..Len(batch.pos) :
                  /\ batch.tool_calls[i].step_id = steps[batch.pos[i]].id
                  /\ batch.tool_calls[i].name = steps[batch.pos[i]].tool.name
                  /\ batch.tool_calls[i].method = steps[batch.pos[i]].tool.method
            /\ batch.remaining = Cardinality(ready) - Len(batch.pos)

\* a batch cut short by batch_size, with ready steps left over and a blocked step skipped
C2_Witness ==
    /\ npc = "batched" /\ bsize = 1
    /\ batch.pos = <<2>> /\ batch.remaining = 1
    /\ norm.plan.steps[1].status = "pending" /\ norm.plan.steps[1].type = "tool"


\* ------------------------------------- the batch loop under two batch sizes
InitBatch ==
    /\ StoreUnused
    /\ TurnUnused
    /\ MemoryUnused
    /\ ToolsUnused
    /\ OthersUnused
    /\ GatewayUnused
    /\ InitSched
    /\ norm = NormalizePlan(planObj, "msg", "t0")
    /\ npc = "normalized"
    /\ bsize = 0 /\ batch = NoBatch("NOT_CALLED")
    /\ planA = norm.plan /\ planB = norm.plan

IterA ==
    LET b == GetReadyToolBatch(planA, 1)
    IN  /\ LoopContinues(b)
        /\ planA' = LoopBody(planA, b)
        /\ UNCHANGED <<planObj, norm, npc, bsize, batch, planB, notPlanner>>

IterB ==
    LET b == GetReadyToolBatch(planB, MAX_BATCH_SIZE)
    IN  /\ LoopContinues(b)
        /\ planB' = LoopBody(planB, b)
        /\ UNCHANGED <<planObj, norm, npc, bsize, batch, planA, notPlanner>>

NextBatch == IterA \/ IterB

SpecBatch == InitBatch /\ [][NextBatch]_vars

LoopEnded(plan, n) == ~LoopContinues(GetReadyToolBatch(plan, n))

\* C7: from the same normalized plan, the loop run to its end with batch_size = 1 and
\* with batch_size = 200 leaves the same plan (every step's status and result)
C7_BatchSizeIndependent ==
    (LoopEnded(planA, 1) /\ LoopEnded(planB, MAX_BATCH_SIZE)) => planA = planB

\* both runs ended; the plan began with two ready steps (one pass with 200, two with 1),
\* one of them failed, and a third step was released by the one that succeeded
C7_Witness ==
    /\ LoopEnded(planA, 1) /\ LoopEnded(planB, MAX_BATCH_SIZE)
    /\ Len(norm.plan.steps) = 3
    /\ Cardinality(ReadySet(norm.plan.steps)) = 2
    /\ \E k \in 1..3 : planA.steps[k].status = "failed"
    /\ \E j, k \in 1..3 :
          /\ norm.plan.steps[j].status = "pending" /\ planA.steps[j].status = "done"
          /\ norm.plan.steps[k].status = "pending" /\ planA.steps[k].status = "done"
          /\ planA.steps[k].depends_on = <<planA.steps[j].id>>
          /\ j # k


\* ------------------------------------------------ checkpoint store, one writer
PlannerUnused ==
    /\ planObj = FullObj(<<>>)
    /\ norm = NotCalled
    /\ npc = "input"
    /\ bsize = 0 /\ batch = NoBatch("NOT_CALLED")
    /\ planA = NoPlan /\ planB = NoPlan

InitStore ==
    PlannerUnused /\ TurnUnused /\ GatewayUnused /\ MemoryUnused /\ ToolsUnused /\ OthersUnused
        /\ InitStoreWith(1)

NextStore ==
    \/ \E t \in Threads : \E st \in StoreStates : SaveOpen(t, st)
    \/ \E t \in Threads : SaveWrite(t)
    \/ \E t \in Threads : SaveClose(t)
    \/ \E t \in Threads : SaveReplace(t)
    \/ \E t \in Threads : SaveReturn(t)
    \/ \E p \in StorePlanIds : Load(p)
    \/ Kill

SpecStore == InitStore /\ [][NextStore]_vars

TargetContent(plan_id) == fsData[fsNames[PathFor(plan_id)]]

\* C9: whenever the process may be killed during a save, the file at the target path is
\* absent (nothing was ever saved) or holds the complete text of the last state whose
\* save reached os.replace, and load never meets a partial file
C9_TargetNeverPartial ==
    /\ \A p \in StorePlanIds :
          IF committed = NoState THEN fsNames[PathFor(p)] = 0
          ELSE /\ fsNames[PathFor(p)] # 0
               /\ TargetContent(p) = StateData(committed[1])
    /\ loaded.error # "JSONDecodeError"

\* after a kill in the middle of the write of a new state (half of it is in the temp
\* file), load returned the complete state saved before
C9_Witness ==
    /\ Active = {}
    /\ committed # NoState
    /\ \E p \in StorePlanIds :
          LET tmp == TmpPath(PathFor(p))
          IN  /\ fsNames[tmp] # 0
              /\ Len(fsData[fsNames[tmp]]) = 1
              /\ fsData[fsNames[tmp]][1][1].size = 2
              /\ fsData[fsNames[tmp]][1][1] # committed[1]
    /\ loaded.ok /\ loaded.state = committed

\* --------------------------------------------- checkpoint store, two writers
InitStoreConc ==
    PlannerUnused /\ TurnUnused /\ GatewayUnused /\ MemoryUnused /\ ToolsUnused /\ OthersUnused
        /\ InitStoreWith(NumThreads)

NextStoreConc ==
    \/ \E t \in Threads : \E st \in StoreStates : SaveOpen(t, st)
    \/ \E t \in Threads : SaveWrite(t)
    \/ \E t \in Threads : SaveClose(t)
    \/ \E t \in Threads : SaveReplace(t)
    \/ \E t \in Threads : SaveReturn(t)
    \/ \E p \in StorePlanIds : Load(p)

SpecStoreConc == InitStoreConc /\ [][NextStoreConc]_vars

\* C10: concurrent saves of one plan id exclude each other: no save ends in an error, and
\* once no save is in progress the file holds one complete state
C10_SavesMutuallyExclusive ==
    /\ \A t \in Threads : tpc[t] # "error"
    /\ \A p \in StorePlanIds :
          (Active = {} /\ fsNames[PathFor(p)] # 0) => Parse(TargetContent(p)) # NoState

\* ------------------------------------------------------------- handle_chat
SessionId == "default"

Message == "msg"

\* MasterAgent._adapt_plan_obj: the result always carries a list under "steps"
AdaptPlanObj(plan_obj, goal_fallback) ==
    IF ~plan_obj.is_dict THEN [FullObj(<<>>) EXCEPT !.goal = goal_fallback]
    ELSE IF plan_obj.steps_kind = "list"
         THEN [plan_obj EXCEPT !.goal = IF @ = "" THEN goal_fallback ELSE @]
    ELSE IF plan_obj.tool_calls_kind = "list" /\ plan_obj.tool_calls # <<>>
         THEN [FullObj([k \in 1..Len(plan_obj.tool_calls) |->
                          [is_dict    |-> TRUE,
                           id         |-> "s" \o ToString(k),
                           title      |-> "Tool: " \o plan_obj.tool_calls[k].name \o "."
                                              \o plan_obj.tool_calls[k].method,
                           type       |-> "tool",
                           depends_on |-> <<>>,
                           tool       |-> plan_obj.tool_calls[k],
                           status     |-> "",
                           result     |-> NoResult]])
                 EXCEPT !.goal = goal_fallback]
    ELSE [FullObj(<<>>) EXCEPT !.goal = goal_fallback]

\* the id f"{session_id}_{int(time.time()*1000)}": the clock is the number of the call
TimeId == SessionId \o "_" \o ToString(turns)

\* the debug plan checkpointed when normalization fails: it has no "steps", and it
\* carries the parsed reply of the model and what _adapt_plan_obj made of it
DebugPlan(plan_obj_raw, plan_obj) ==
    ("raw_plan" :> plan_obj_raw) @@ ("adapted_plan" :> plan_obj)
        @@ [NoPlan EXCEPT !.plan_id = TimeId, !.goal = Message]

\* PlanStateStore.wrap
Wrap(plan, status) ==
    [plan_id |-> IF plan.plan_id # "" THEN plan.plan_id ELSE "plan",
     status  |-> status,
     plan    |-> plan]

\* PlanStateStore.save with a writer that is alone and not interrupted
SaveState(files, state) ==
    {f \in files : f.path # PathFor(state.plan_id)}
        \cup {[path |-> PathFor(state.plan_id), state |-> state]}

\* PlanStateStore.load
LoadState(files, plan_id) ==
    LET hits == {f \in files : f.path = PathFor(plan_id)}
    IN  IF hits = {} THEN [ok |-> FALSE, plan |-> NoPlan]
        ELSE [ok |-> TRUE, plan |-> (CHOOSE f \in hits : TRUE).state.plan]

\* MasterAgent._checkpoint: the plan gets an id if it has none, then it is wrapped and saved
CheckpointPlan(plan) == IF plan.plan_id = "" THEN [plan EXCEPT !.plan_id = TimeId] ELSE plan

Checkpoint(plan, status) ==
    /\ ckFiles' = SaveState(ckFiles, Wrap(CheckpointPlan(plan), status))
    /\ ckLog' = Append(ckLog, status)

\* the except clause of handle_chat fills error and details
Caught(o) == [o EXCEPT !.error = "MASTERAGENT_EXCEPTION", !.details = {"type", "message"}]

\* the return statement together with the finally block
Return(o) ==
    /\ hpc' = "returned"
    /\ out' = [o EXCEPT !.tool_batches = hbatches,
                        !.tool_calls_count = Len(o.tool_results)]

\* the plan ids a caller can name: none, one that was never stored, one that was stored
ResumeIds == {"", "X"} \cup {f.state.plan_id : f \in ckFiles}

Requests ==
    {[message |-> "", session_ok |-> TRUE, ctx_ok |-> TRUE, plan_id |-> ""],
     [message |-> Message, session_ok |-> FALSE, ctx_ok |-> TRUE, plan_id |-> ""],
     [message |-> Message, session_ok |-> TRUE, ctx_ok |-> FALSE, plan_id |-> ""]}
        \cup {[message |-> Message, session_ok |-> TRUE, ctx_ok |-> TRUE, plan_id |-> p] :
                  p \in ResumeIds}

\* mutant: the plan_id argument is ignored
ResumableNever(plan_id) == FALSE

\* isinstance(plan_id, str) and plan_id
Resumable(plan_id) == plan_id # ""

\* the call up to the resume test; add_turn raises ValueError for a session id that is
\* empty after sanitization
ChatBegin ==
    /\ hpc \in {"idle", "returned"}
    /\ turns < MaxTurns
    /\ turns' = turns + 1
    /\ \E r \in Requests :
        /\ hreq' = r
        /\ IF r.message = "" THEN Return([NewOut EXCEPT !.error = "INVALID_MESSAGE"])
           ELSE IF ~r.session_ok THEN Return(Caught(NewOut))
           ELSE IF ~r.ctx_ok
           THEN Return([NewOut EXCEPT !.error = "CONTEXT_BUILD_FAILED", !.details = {"ctx"}])
           ELSE /\ out' = NewOut
                /\ hpc' = IF Resumable(r.plan_id) THEN "resume" ELSE "llm_plan"
    /\ hplan' = <<>> /\ hcalls' = NoBatch("NOT_CALLED") /\ hresults' = <<>>
    /\ hbatches' = 0 /\ ckLog' = <<>> /\ dispatched' = <<>>
    /\ llmCalls' = 0
    /\ prev' = IF hpc = "returned"
               THEN [valid |-> TRUE, req |-> hreq, out |-> out, plan |-> hplan]
               ELSE NoPrev
    /\ UNCHANGED <<llmPlan, ckFiles, sent, notTurn>>

\* RESUME: the stored plan replaces planning
Resume ==
    /\ hpc = "resume"
    /\ LET ld == LoadState(ckFiles, hreq.plan_id)
       IN  IF ~ld.ok
           THEN /\ Return([out EXCEPT !.error = "RESUME_FAILED",
                                      !.details = {"type", "message", "plan_id"}])
                /\ UNCHANGED <<hplan, ckFiles, ckLog>>
           ELSE LET plan == [ld.plan EXCEPT !.plan_id = hreq.plan_id]
                IN  /\ hplan' = <<plan>>
                    /\ Checkpoint(plan, "running")
                    /\ out' = [out EXCEPT !.checkpoint = "running"]
                    /\ hpc' = "loop"
    /\ UNCHANGED <<llmPlan, hreq, hcalls, hresults, hbatches, dispatched, turns, llmCalls,
                   sent, prev, notTurn>>

\* the planning call of the model, adaptation and normalization
PlanLLM ==
    /\ hpc = "llm_plan"
    /\ llmCalls' = llmCalls + 1
    /\ IF llmPlan.kind = "error"
       THEN /\ Return([out EXCEPT !.error = "LLM_ERROR", !.details = {"llm"}])
            /\ UNCHANGED <<hplan, ckFiles, ckLog, sent>>
       ELSE IF llmPlan.kind = "text"
       THEN /\ Return([out EXCEPT !.ok = TRUE, !.final = "text"])
            /\ UNCHANGED <<hplan, ckFiles, ckLog, sent>>
       ELSE LET plan_obj == AdaptPlanObj(llmPlan.obj, Message)
                nrm      == NormalizePlan(plan_obj, Message, "t0")
            IN  IF ~nrm.ok
                THEN /\ Checkpoint(DebugPlan(llmPlan.obj, plan_obj), "failed_normalize")
                     /\ Return([out EXCEPT !.ok = TRUE, !.final = "text",
                                           !.error = "PLAN_NORMALIZE_FAILED",
                                           !.details = {"ok", "error", "details"},
                                           !.checkpoint = "failed_normalize"])
                     /\ UNCHANGED <<hplan, sent>>
                ELSE /\ hplan' = <<nrm.plan>>
                     /\ Checkpoint(nrm.plan, "running")
                     /\ out' = [out EXCEPT !.checkpoint = "running"]
                     /\ hpc' = "loop"
                     /\ sent' = {e \in sent : e[1] # nrm.plan.plan_id}
    /\ UNCHANGED <<llmPlan, hreq, hcalls, hresults, hbatches, dispatched, turns, prev, notTurn>>

\* the head of the while loop: the next batch, or the way out of the loop
LoopHead ==
    /\ hpc = "loop"
    /\ LET b == IF hplan # <<>> THEN GetReadyToolBatch(hplan[1], CHAT_BATCH_SIZE)
                ELSE NoBatch("")
       IN  IF LoopContinues(b)
           THEN /\ hbatches < MaxBatches
                /\ hcalls' = b
                /\ hbatches' = hbatches + 1
                /\ hpc' = "dispatch"
           ELSE /\ hpc' = "final"
                /\ UNCHANGED <<hcalls, hbatches>>
    /\ hresults' = <<>>
    /\ dispatched' = <<>>
    /\ UNCHANGED <<llmPlan, hreq, hplan, ckLog, ckFiles, out, turns, llmCalls, sent, prev,
                   notTurn>>

\* ToolRouter.execute handles the next call of the batch
Dispatch ==
    /\ hpc = "dispatch"
    /\ Len(hresults) < Len(hcalls.tool_calls)
    /\ LET k == Len(hresults) + 1
           c == hcalls.tool_calls[k]
       IN  /\ hresults' = Append(hresults, RouterResult(CanonicalizeToolCall(c.name, c.method)))
           /\ dispatched' = Append(dispatched, hcalls.pos[k])
           /\ sent' = sent \cup {<<hplan[1].plan_id, hcalls.pos[k]>>}
    /\ UNCHANGED <<llmPlan, hpc, hreq, hplan, hcalls, hbatches, ckLog, ckFiles, out, turns,
                   llmCalls, prev, notTurn>>

\* the rest of the loop body: tag the results, apply them, checkpoint
ApplyBatch ==
    /\ hpc = "dispatch"
    /\ Len(hresults) = Len(hcalls.tool_calls)
    /\ LET results == TagResults(hresults, hcalls.tool_calls)
           plan    == ApplyToolResults(hplan[1], results)
       IN  /\ hplan' = <<plan>>
           /\ Checkpoint(plan, "running")
           /\ out' = [out EXCEPT !.checkpoint = "running",
                                 !.tool_results = @ \o results]
    /\ hpc' = "loop"
    /\ UNCHANGED <<llmPlan, hreq, hcalls, hresults, hbatches, dispatched, turns, llmCalls,
                   sent, prev, notTurn>>

FinalTexts == {"", "answer"}

\* mutant: the final text tells how many tools the call itself ran
FinalTextCounting(text, tool_results) == text \o ToString(Len(tool_results))

\* final_text from the model's reply; the tool results reach the model in the prompt only
FinalText(text, tool_results) == IF text = "" THEN "(no output)" ELSE text

\* mutant: the call that ends without an exception checkpoints running again
TerminalStatusRunning(raised) == IF raised THEN "failed" ELSE "running"

\* the status of the last checkpoint of a call that has a plan
TerminalStatus(raised) == IF raised THEN "failed" ELSE "done"

\* final answer synthesis and the last checkpoint; an exception raised in this block
\* (json.dumps of a tool result that is not serializable) is caught by the handler
Synthesize ==
    /\ hpc = "final"
    /\ \E raised \in BOOLEAN :
        IF raised
        THEN /\ Return([Caught(out) EXCEPT
                                   !.checkpoint = IF hplan # <<>> THEN TerminalStatus(TRUE)
                                                  ELSE @])
             /\ IF hplan # <<>> THEN Checkpoint(hplan[1], TerminalStatus(TRUE))
                ELSE UNCHANGED <<ckFiles, ckLog>>
        ELSE /\ Return([out EXCEPT !.ok = TRUE,
                                   !.final = FinalText(llmPlan.final, out.tool_results),
                                   !.checkpoint = IF hplan # <<>> THEN TerminalStatus(FALSE)
                                                  ELSE @])
             /\ IF hplan # <<>> THEN Checkpoint(hplan[1], TerminalStatus(FALSE))
                ELSE UNCHANGED <<ckFiles, ckLog>>
    /\ UNCHANGED <<llmPlan, hreq, hplan, hcalls, hresults, hbatches, dispatched, turns,
                   llmCalls, sent, prev, notTurn>>

\* the process dies inside a call: the locals are gone, the checkpoint files stay
ProcessKilled ==
    /\ hpc \in {"resume", "llm_plan", "loop", "dispatch", "final"}
    /\ hpc' = "idle"
    /\ hreq' = NoReq /\ hplan' = <<>> /\ hcalls' = NoBatch("NOT_CALLED") /\ hresults' = <<>>
    /\ hbatches' = 0 /\ ckLog' = <<>> /\ dispatched' = <<>> /\ out' = NewOut
    /\ llmCalls' = 0
    /\ UNCHANGED <<llmPlan, ckFiles, turns, sent, prev, notTurn>>

\* the steps of the plans the mock model answers with: <<type, status, tool>> and depends_on
TurnChoices ==
    {<<"tool", "", PingTool>>, <<"tool", "", EchoTool>>, <<"note", "", NoTool>>}
        \X SchedDepChoices

\* a browser call under an alias of http_get
BrowserFetch == [name |-> "browser", method |-> "fetch"]

\* what the mock model answers to the planning prompt
TurnOddObjs ==
    {[FullObj(<<>>) EXCEPT !.is_dict = FALSE],
     FullObj(<<[RawStep("a", "tool", <<>>, "", NoResult) EXCEPT !.tool = BrowserFetch]>>),
     [FullObj(<<>>) EXCEPT !.steps_kind = "nonlist"],
     [FullObj(<<>>) EXCEPT !.created_ts = "abc"],
     [FullObj(<<RawStep("a", "tool", <<>>, "", NoResult)>>) EXCEPT !.plan_id = "P"],
     ToolCallsObj(<<PingTool, EchoTool>>, ""),
     FullObj(<<RawStep("a", "tool", <<>>, "", NoResult),
               RawStep(Sha("a2"), "tool", <<>>, "", NoResult),
               RawStep("a", "tool", <<>>, "", NoResult)>>),
     FullObj(<<RawStep("a", "tool", <<>>, "", NoResult),
               [RawStep(Sha("a2"), "tool", <<>>, "", NoResult) EXCEPT !.tool = EchoTool],
               RawStep("a", "tool", <<>>, "", NoResult)>>)}

\* the checkpoint directory as an earlier process can have left it: empty, or holding
\* the running checkpoint of a plan whose call died right after planning
LeftBehind(llm) ==
    LET nrm == NormalizePlan(AdaptPlanObj(llm.obj, Message), Message, "t0")
    IN  {{}} \cup (IF llm.kind = "json" /\ nrm.ok
                   THEN {SaveState({}, Wrap(nrm.plan, "running"))}
                   ELSE {})

Init ==
    /\ PlannerUnused
    /\ StoreUnused
    /\ GatewayUnused
    /\ MemoryUnused
    /\ ToolsUnused
    /\ OthersUnused
    /\ \/ llmPlan \in {[NoLLM EXCEPT !.kind = "error"], [NoLLM EXCEPT !.kind = "text"]}
       \/ \E n \in 0..MaxTurnSteps : \E ch \in [1..n -> TurnChoices] :
              llmPlan = [kind |-> "json", obj |-> SchedObj(n, ch), final |-> "answer"]
       \/ \E o \in TurnOddObjs : \E t \in FinalTexts :
              llmPlan = [kind |-> "json", obj |-> o, final |-> t]
    /\ hpc = "idle"
    /\ hreq = NoReq
    /\ hplan = <<>>
    /\ hcalls = NoBatch("NOT_CALLED")
    /\ hresults = <<>>
    /\ hbatches = 0
    /\ ckLog = <<>>
    /\ dispatched = <<>>
    /\ ckFiles \in LeftBehind(llmPlan)
    /\ out = NewOut
    /\ turns = 0
    /\ llmCalls = 0
    /\ sent = {}
    /\ prev = NoPrev

Next ==
    \/ ChatBegin
    \/ Resume
    \/ PlanLLM
    \/ LoopHead
    \/ Dispatch
    \/ ApplyBatch
    \/ Synthesize
    \/ ProcessKilled

Spec == Init /\ [][Next]_vars

\* ----------------------------------------------------- handle_chat, claims
\* C1: a tool step goes to the router only while every id in its depends_on is the id
\* of a step with status done, and the steps of one batch go in plan order
C1_DispatchRespectsDependsOn ==
    [][Len(dispatched') = Len(dispatched) + 1 =>
          LET p     == dispatched'[Len(dispatched')]
              steps == hplan[1].steps
          IN  /\ steps[p].type = "tool"
              /\ \A d \in Range(steps[p].depends_on) :
                     \E j \in 1..Len(steps) : steps[j].id = d /\ steps[j].status = "done"
              /\ dispatched # <<>> => dispatched[Len(dispatched)] < p]_vars

\* a resumed call is sending, in its second batch, a step that depends on another step
C1_Witness ==
    /\ hpc = "dispatch"
    /\ hreq.plan_id # ""
    /\ hbatches = 2
    /\ dispatched # <<>>
    /\ hplan[1].steps[dispatched[Len(dispatched)]].depends_on # <<>>

Terminal == {"done", "failed", "failed_normalize"}

\* C8 as stated: a call that checkpoints at all starts with running, continues with
\* running only, and ends with exactly one terminal status
C8_RunningThenOneTerminal ==
    /\ \A i \in 1..(Len(ckLog) - 1) : ckLog[i] = "running"
    /\ (hpc = "returned" /\ ckLog # <<>>) =>
          /\ Len(ckLog) >= 2
          /\ ckLog[1] = "running"
          /\ ckLog[Len(ckLog)] \in Terminal

\* C8, amended: a call that returns has checkpointed nothing (no plan came to exist),
\* or failed_normalize alone (normalization failed), or running once at the start, running
\* once after each batch, and then exactly one of done and failed; nothing follows a
\* terminal status
C8_CheckpointSequence ==
    /\ \A i \in 1..(Len(ckLog) - 1) : ckLog[i] = "running"
    /\ hpc # "returned" => \A i \in 1..Len(ckLog) : ckLog[i] = "running"
    /\ hpc = "returned" =>
          \/ ckLog = <<>> /\ out.checkpoint = ""
          \/ ckLog = <<"failed_normalize">> /\ out.error = "PLAN_NORMALIZE_FAILED"
          \/ /\ Len(ckLog) = out.tool_batches + 2
             /\ ckLog[1] = "running"
             /\ ckLog[Len(ckLog)] \in {"done", "failed"}

\* a call that ran two batches and ended without an exception
C8_Witness ==
    /\ hpc = "returned"
    /\ ckLog = <<"running", "running", "running", "done">>
    /\ out.tool_batches = 2

\* the store holds a state for the plan id of the current call
Held == hreq.plan_id # "" /\ LoadState(ckFiles, hreq.plan_id).ok

DispatchStep == Len(dispatched') = Len(dispatched) + 1

\* C11: a call whose plan_id the store holds never calls the planner model; it loads the
\* plan, checkpoints running before any tool is dispatched, and its first batch is the
\* ready set of the stored step statuses
C11_ResumeSkipsPlanner ==
    [][/\ llmCalls' > llmCalls => ~Held
       /\ (hpc = "resume" /\ Held) =>
             \/ hpc' = "idle"
             \/ /\ hpc' = "loop"
                /\ hplan' = <<[LoadState(ckFiles, hreq.plan_id).plan
                                  EXCEPT !.plan_id = hreq.plan_id]>>
                /\ ckLog' = <<"running">>
                /\ sent' = sent
       /\ (DispatchStep /\ hreq.plan_id # "") => (ckLog # <<>> /\ ckLog[1] = "running")
       /\ (hpc = "loop" /\ hpc' = "dispatch" /\ hreq.plan_id # "" /\ hbatches = 0) =>
             LET stored == LoadState(ckFiles, hreq.plan_id).plan.steps
             IN  /\ Range(hcalls'.pos) = ReadySet(stored)
                 /\ \A k \in 1..Len(stored) : hplan[1].steps[k].status = stored[k].status
      ]_vars

\* a resumed call is dispatching its first batch from a stored plan that already had a
\* finished step, without a planning call
C11_Witness ==
    /\ hpc = "dispatch"
    /\ hreq.plan_id # ""
    /\ hbatches = 1
    /\ llmCalls = 0
    /\ ckLog = <<"running">>
    /\ dispatched # <<>>
    /\ \E k \in 1..Len(hplan[1].steps) :
          hplan[1].steps[k].type = "tool" /\ hplan[1].steps[k].status \in {"done", "failed"}

\* the step handed to the router was not handed to it before, and is pending
NoRedispatch ==
    DispatchStep =>
        LET p == dispatched'[Len(dispatched')]
        IN  /\ <<hplan[1].plan_id, p>> \notin sent
            /\ hplan[1].steps[p].status = "pending"

\* unless the plan is planned anew, a step of a stored plan that left pending stays so
StatusKept ==
    hpc # "llm_plan" =>
        \A f \in ckFiles : \A g \in ckFiles' :
            (f.path = g.path /\ f.state.plan.has_steps) =>
                /\ Len(g.state.plan.steps) = Len(f.state.plan.steps)
                /\ \A k \in 1..Len(f.state.plan.steps) :
                       f.state.plan.steps[k].status # "pending"
                           => g.state.plan.steps[k].status = f.state.plan.steps[k].status

\* a resumed call that finds no ready step dispatches nothing and, when nothing is
\* raised, returns ok=true after the checkpoint done
IdleResumeEndsDone ==
    /\ (hpc = "loop" /\ hreq.plan_id # "" /\ hbatches = 0
           /\ (hplan[1].has_steps => ReadySet(hplan[1].steps) = {})) => hpc' # "dispatch"
    /\ (hpc = "final" /\ hpc' = "returned" /\ hreq.plan_id # "" /\ hbatches = 0
           /\ out'.error = "") =>
          (out'.ok /\ out'.checkpoint = "done" /\ out'.tool_results = <<>>
             /\ ckLog' = <<"running", "done">>)

\* C12: over a call and later resumes of the same plan each tool step goes to the router
\* at most once, no status returns to pending, and a resume that finds no ready step
\* dispatches nothing and ends with ok=true and the checkpoint done
C12_NoStepDispatchedTwice ==
    [][NoRedispatch /\ StatusKept /\ IdleResumeEndsDone]_vars

\* C13: a call whose plan_id the store does not hold goes on as a new turn: it calls
\* the planner model instead of ending
C13_UnknownPlanIdPlansAnew ==
    (hpc = "returned" /\ hreq.message # "" /\ hreq.ctx_ok /\ hreq.plan_id # "" /\ ~Held) =>
        (llmCalls = 1 /\ out.error # "RESUME_FAILED")

Raised(o) == o.error = "MASTERAGENT_EXCEPTION"

\* C14: with a fixed model reply and nothing raised, a call that repeats the resume call
\* that returned just before it returns the same final and the same plan
C14_ResumeDeterministic ==
    (hpc = "returned" /\ prev.valid /\ prev.req = hreq /\ hreq.plan_id # ""
        /\ ~Raised(out) /\ ~Raised(prev.out)) =>
        (out.final = prev.out.final /\ hplan = prev.plan)

\* the first of the two resume calls ran tools, the second found them done
C14_Witness ==
    /\ hpc = "returned"
    /\ prev.valid /\ prev.req = hreq /\ hreq.plan_id # ""
    /\ prev.out.ok /\ out.ok
    /\ prev.out.tool_results # <<>>
    /\ out.tool_results = <<>>
    /\ hplan # <<>> /\ hplan = prev.plan

\* ------------------------------------------------------------------ gateway
\* mutant: the guard lets a fifth request in
ChatFullLate(inflight) == inflight > MAX_CHAT_INFLIGHT

\* _CHAT_INFLIGHT >= MAX_CHAT_INFLIGHT
ChatFull(inflight) == inflight >= MAX_CHAT_INFLIGHT

\* mutant: the finally block releases whether or not a slot was taken
ReleaseAlways(acquired) == TRUE

\* if acquired: _chat_release()
ReleaseNeeded(acquired) == acquired

Respond(w, next_pc, status, payload, extra_headers) ==
    /\ greq' = [greq EXCEPT ![w].status = status,
                            ![w].responses =
                                Append(@, Response(status, greq[w].request_id, payload,
                                                   extra_headers))]
    /\ gpc' = [gpc EXCEPT ![w] = next_pc]

\* do_POST from its first line to now = time.time() in _rate_limit_ok, which is read
\* before the lock is taken; uuid4 gives an id that no request had before
ClockRead(w, ip, limit) ==
    /\ w <= gwActive
    /\ gpc[w] = "idle"
    /\ \A v \in 1..(w - 1) : gpc[v] # "idle"
    /\ nextRid < limit
    /\ nextRid' = nextRid + 1
    /\ greq' = [greq EXCEPT ![w] = NewRequest(nextRid + 1, ip, now)]
    /\ gpc' = [gpc EXCEPT ![w] = "rate"]
    /\ UNCHANGED <<gwActive, rateBuckets, now, ticks, chatInflight, chatBusyTotal,
                   rateLimitedTotal, reqLog, handled, admitted, notGateway>>

\* the locked part of _rate_limit_ok for the request req of thread w, and the 429 when
\* it denies
RateDecide(w, req) ==
    LET rl == RateLimitOk(rateBuckets, req.ip, req.now)
    IN  /\ rateBuckets' = rl.buckets
        /\ IF rl.ok
           THEN /\ greq' = [greq EXCEPT ![w] = req]
                /\ gpc' = [gpc EXCEPT ![w] = "admitted"]
                /\ admitted' = RecordAdmitted(admitted, req.ip, req.now)
                /\ UNCHANGED rateLimitedTotal
           ELSE /\ greq' = [greq EXCEPT ![w] =
                              [req EXCEPT !.status = 429,
                                          !.responses =
                                              <<Response(429, req.request_id,
                                                         ErrorPayload("RATE_LIMITED"),
                                                         [Retry_After |-> <<rl.retry_after>>])>>]]
                /\ gpc' = [gpc EXCEPT ![w] = "finally"]
                /\ rateLimitedTotal' = rateLimitedTotal + 1
                /\ UNCHANGED admitted

RateCheck(w) ==
    /\ gpc[w] = "rate"
    /\ RateDecide(w, greq[w])
    /\ UNCHANGED <<gwActive, now, ticks, chatInflight, chatBusyTotal, reqLog, nextRid,
                   handled, notGateway>>

\* ClockRead and RateCheck in one step, for a gateway whose clock stands still
PostBegin(w, ip, limit) ==
    /\ w <= gwActive
    /\ gpc[w] = "idle"
    /\ \A v \in 1..(w - 1) : gpc[v] # "idle"
    /\ nextRid < limit
    /\ nextRid' = nextRid + 1
    /\ RateDecide(w, NewRequest(nextRid + 1, ip, now))
    /\ UNCHANGED <<gwActive, now, ticks, chatInflight, chatBusyTotal, reqLog, handled,
                   notGateway>>

BodyKinds == {"valid", "too_large", "invalid", "bad_json"}

\* acquired = _chat_acquire() and the 503 when it is refused; with a slot the thread reads
\* and validates the body, which touches nothing shared: a valid body enters
\* AGENT.handle_chat, a body that is not JSON raises inside the try block
Acquire(w, kind) ==
    /\ gpc[w] = "admitted"
    /\ IF ChatFull(chatInflight)
       THEN /\ chatBusyTotal' = chatBusyTotal + 1
            /\ Respond(w, "finally", 503, ErrorPayload("BUSY"), NoHeaders)
            /\ UNCHANGED <<chatInflight, handled>>
       ELSE /\ chatInflight' = chatInflight + 1
            /\ UNCHANGED chatBusyTotal
            /\ LET req == [greq[w] EXCEPT !.acquired = TRUE]
                   Refuse(status, error) ==
                       [req EXCEPT !.status = status,
                                   !.responses = Append(@, Response(status, req.request_id,
                                                                    ErrorPayload(error),
                                                                    NoHeaders))]
               IN  /\ greq' = [greq EXCEPT ![w] =
                                 CASE kind = "valid"     -> req
                                   [] kind = "too_large" -> Refuse(413, "PAYLOAD_TOO_LARGE")
                                   [] kind = "invalid"   -> Refuse(400, "INVALID_REQUEST")
                                   [] kind = "not_dict"  -> Refuse(400, "INVALID_SCHEMA")
                                   [] OTHER              -> Refuse(500, "GATEWAY_EXCEPTION")]
                   /\ gpc' = [gpc EXCEPT ![w] = IF kind = "valid" THEN "chat" ELSE "finally"]
                   /\ handled' = IF kind = "valid" THEN handled + 1 ELSE handled
    /\ UNCHANGED <<gwActive, rateBuckets, now, ticks, rateLimitedTotal, reqLog, nextRid,
                   admitted, notGateway>>

\* handle_chat returned, and its result is sent with 200
ChatReturn(w) ==
    /\ gpc[w] = "chat"
    /\ Respond(w, "finally", 200, [ok |-> TRUE, error |-> ""], NoHeaders)
    /\ UNCHANGED <<gwActive, rateBuckets, now, ticks, chatInflight, chatBusyTotal,
                   rateLimitedTotal, reqLog, nextRid, handled, admitted, notGateway>>

\* the finally block: the slot is given back if one was taken, then the request is recorded
Finally(w) ==
    /\ gpc[w] = "finally"
    /\ chatInflight' = IF ReleaseNeeded(greq[w].acquired) THEN Max(0, chatInflight - 1)
                       ELSE chatInflight
    /\ reqLog' = AppendLog(reqLog, greq[w].request_id)
    /\ gpc' = [gpc EXCEPT ![w] = "idle"]
    /\ greq' = [greq EXCEPT ![w] = NoRequest]
    /\ UNCHANGED <<gwActive, rateBuckets, now, ticks, chatBusyTotal, rateLimitedTotal,
                   nextRid, handled, admitted, notGateway>>

\* the clock moves on
Tick(d) ==
    /\ ticks < MaxTicks
    /\ ticks' = ticks + 1
    /\ now' = now + d
    /\ UNCHANGED <<gwActive, gpc, greq, rateBuckets, chatInflight, chatBusyTotal,
                   rateLimitedTotal, reqLog, nextRid, handled, admitted, notGateway>>

\* a gateway with n request threads in which ip has had k requests admitted at time 0
InitGatewayWith(n, ip, k) ==
    /\ PlannerUnused
    /\ StoreUnused
    /\ TurnUnused
    /\ MemoryUnused
    /\ ToolsUnused
    /\ gwActive = n
    /\ gpc = [w \in Workers |-> IF w <= n THEN "idle" ELSE "unused"]
    /\ greq = [w \in Workers |-> NoRequest]
    /\ rateBuckets = IF k = 0 THEN <<>> ELSE (ip :> [i \in 1..k |-> 0])
    /\ now = 0
    /\ ticks = 0
    /\ chatInflight = 0
    /\ chatBusyTotal = 0
    /\ rateLimitedTotal = 0
    /\ reqLog = {}
    /\ nextRid = 0
    /\ handled = 0
    /\ admitted = IF k = 0 THEN {} ELSE {<<ip, 0, k>>}

\* ------------------------------------------- gateway, the rate limiter over time
\* two request threads; the window of client A is empty, or two short of the limit
InitRate == OthersUnused /\ \E k \in {0, RATE_LIMIT_MAX - 2} : InitGatewayWith(2, "A", k)

\* client B sends one request
RateClients ==
    {"A"} \cup (IF \E w \in Workers : greq[w].ip = "B" \/ "B" \in DOMAIN rateBuckets
                THEN {} ELSE {"B"})

NextRate ==
    \/ \E w \in Workers : \E ip \in RateClients : ClockRead(w, ip, MaxRateRequests)
    \/ \E w \in Workers : RateCheck(w)
    \/ \E w \in Workers : Acquire(w, "valid")
    \/ \E w \in Workers : ChatReturn(w)
    \/ \E w \in Workers : Finally(w)
    \/ \E d \in {1, RATE_LIMIT_WINDOW_S} : Tick(d)

SpecRate == InitRate /\ [][NextRate]_vars

\* ------------------------------------------- gateway, concurrent request threads
\* the window of the one client is empty, or one short of the limit
InitGateway ==
    OthersUnused /\ \E k \in {0, RATE_LIMIT_MAX - 1} : InitGatewayWith(NumWorkers, "A", k)

NextGateway ==
    \/ \E w \in Workers : PostBegin(w, "A", MaxRequests)
    \/ \E w \in Workers : \E kind \in BodyKinds : Acquire(w, kind)
    \/ \E w \in Workers : ChatReturn(w)
    \/ \E w \in Workers : Finally(w)

SpecGateway == InitGateway /\ [][NextGateway]_vars

\* the request threads inside AGENT.handle_chat, and those that hold a slot
InChat == {w \in Workers : gpc[w] = "chat"}

Holding == {w \in Workers : greq[w].acquired}

\* thread w passes the concurrency check in this step
AtCheck(w) == gpc[w] = "admitted" /\ gpc'[w] # "admitted"

RefusedBusy(w) ==
    /\ gpc'[w] = "finally"
    /\ ~greq'[w].acquired
    /\ greq'[w].status = 503
    /\ greq'[w].responses =
           <<Response(503, greq[w].request_id, ErrorPayload("BUSY"), NoHeaders)>>
    /\ handled' = handled
    /\ chatBusyTotal' = chatBusyTotal + 1

BusyStep ==
    /\ \A w \in Workers : AtCheck(w) /\ Cardinality(Holding) >= MAX_CHAT_INFLIGHT
                              => RefusedBusy(w)
    /\ chatBusyTotal' >= chatBusyTotal
    /\ chatBusyTotal' # chatBusyTotal
           => \E w \in Workers : AtCheck(w) /\ Cardinality(Holding) >= MAX_CHAT_INFLIGHT

\* C15: under every interleaving of the request threads at most 4 of them are inside
\* handle_chat; a request that reaches the concurrency check while 4 slots are held is
\* answered 503 BUSY, handle_chat is not invoked for it, chat_busy_total grows by exactly
\* one for it, and chat_busy_total never decreases
C15_AtMostFourInChat ==
    [](Cardinality(InChat) <= MAX_CHAT_INFLIGHT) /\ [][BusyStep]_vars

\* four requests are inside handle_chat and a fifth has been answered 503
C15_Witness ==
    /\ Cardinality(InChat) = MAX_CHAT_INFLIGHT
    /\ chatBusyTotal = 1
    /\ \E w \in Workers : gpc[w] = "finally" /\ greq[w].status = 503

\* thread w runs its finally block in this step
Leaves(w) == gpc[w] = "finally" /\ gpc'[w] = "idle"

SlotStep ==
    /\ \A w \in Workers :
           Leaves(w) => chatInflight' = chatInflight - (IF greq[w].acquired THEN 1 ELSE 0)
    /\ \A w \in Workers :
           AtCheck(w) /\ Cardinality(Holding) < MAX_CHAT_INFLIGHT
               => greq'[w].acquired /\ chatInflight' = chatInflight + 1
    /\ (\A w \in Workers : ~Leaves(w) /\ ~AtCheck(w)) => chatInflight' = chatInflight

\* C16: a request that took a slot gives it back exactly once, whichever way it leaves
\* (200, 400, 413, 500), and a refused request gives none back; chat_inflight is the
\* number of requests between acquire and release, and a request that reaches the check
\* while fewer than 4 slots are held is let in
C16_SlotReleasedOnce ==
    [](chatInflight = Cardinality(Holding)) /\ [][SlotStep]_vars

\* all five requests were let in although there are four slots: one has left, four hold a
\* slot, and one of those is on its way out with an error
C16_Witness ==
    /\ nextRid = MAX_CHAT_INFLIGHT + 1
    /\ Cardinality(reqLog) = 1
    /\ Cardinality(Holding) = MAX_CHAT_INFLIGHT
    /\ chatInflight = MAX_CHAT_INFLIGHT
    /\ \E w \in Holding : gpc[w] = "finally" /\ greq[w].status \in {400, 413, 500}

\* the admissions of ip whose clock value lies in the closed interval from..to
RECURSIVE CountOf(_)
CountOf(entries) ==
    IF entries = {} THEN 0
    ELSE LET e == CHOOSE x \in entries : TRUE IN e[3] + CountOf(entries \ {e})

AdmittedIn(ip, from, to) ==
    CountOf({e \in admitted : e[1] = ip /\ from <= e[2] /\ e[2] <= to})

\* thread w gets the answer of the rate limiter in this step
AtLimiter(w) == gpc[w] = "rate" /\ gpc'[w] # "rate"

LimiterStep ==
    \A w \in Workers :
        AtLimiter(w) =>
            /\ AdmittedIn(greq[w].ip, greq[w].now - RATE_LIMIT_WINDOW_S, greq[w].now)
                   >= RATE_LIMIT_MAX
                 => /\ gpc'[w] = "finally"
                    /\ greq'[w].status = 429
                    /\ ~greq'[w].acquired
                    /\ chatInflight' = chatInflight
                    /\ handled' = handled
            /\ \A ip \in DOMAIN rateBuckets :
                   ip # greq[w].ip => rateBuckets'[ip] = rateBuckets[ip]

\* C17: for each remote IP at most 30 requests pass the rate limiter in any window of 60
\* seconds; a request of an IP that has 30 admissions in the last 60 seconds is answered
\* 429, takes no slot and does not reach the orchestrator; a request never changes the
\* window of another IP
C17_ThirtyPerWindow ==
    /\ [](\A e \in admitted :
              AdmittedIn(e[1], e[2], e[2] + RATE_LIMIT_WINDOW_S) <= RATE_LIMIT_MAX)
    /\ [][LimiterStep]_vars

\* the requests that the rate limiter has denied and that are still being served
Denied == {w \in Workers : gpc[w] = "finally" /\ greq[w].status = 429}

\* C18: a denial of the rate limiter is one 429 response whose body is
\* {ok: false, error: RATE_LIMITED, retry_after_s: N} and whose Retry-After header is the
\* same N, with 1 <= N <= 60
C18_DenialCarriesRetryAfter ==
    \A w \in Denied :
        /\ Len(greq[w].responses) = 1
        /\ LET r == greq[w].responses[1]
           IN  /\ r.status = 429
               /\ Len(r.headers.Retry_After) = 1
               /\ r.headers.Retry_After[1] \in 1..RATE_LIMIT_WINDOW_S
               /\ DOMAIN r.payload = {"ok", "error", "retry_after_s"}
               /\ r.payload.ok = FALSE
               /\ r.payload.error = "RATE_LIMITED"
               /\ r.payload.retry_after_s = r.headers.Retry_After[1]

\* the same without the body: a denial is a 429 with a Retry-After header between 1 and 60
DenialHeaderInRange ==
    \A w \in Denied :
        /\ Len(greq[w].responses) = 1
        /\ LET r == greq[w].responses[1]
           IN  /\ r.status = 429
               /\ Len(r.headers.Retry_After) = 1
               /\ r.headers.Retry_After[1] \in 1..RATE_LIMIT_WINDOW_S

\* ------------------------------------------- gateway, many clients
\* one request thread and a clock that stands still; the clients are numbered, the
\* gateway has at this instant served one request of each of the first SeenClients, and
\* every further request comes from the next client
InitRateKeys ==
    /\ PlannerUnused
    /\ StoreUnused
    /\ TurnUnused
    /\ MemoryUnused
    /\ ToolsUnused
    /\ OthersUnused
    /\ gwActive = 1
    /\ gpc = [w \in Workers |-> IF w = 1 THEN "idle" ELSE "unused"]
    /\ greq = [w \in Workers |-> NoRequest]
    /\ rateBuckets = [ip \in 1..SeenClients |-> <<0>>]
    /\ now = 0
    /\ ticks = 0
    /\ chatInflight = 0
    /\ chatBusyTotal = 0
    /\ rateLimitedTotal = 0
    /\ reqLog = {<<rid, 1>> : rid \in 1..SeenClients}
    /\ nextRid = SeenClients
    /\ handled = SeenClients
    /\ admitted = {<<ip, 0, 1>> : ip \in 1..SeenClients}

NextRateKeys ==
    \/ PostBegin(1, nextRid + 1, SeenClients + MaxKeyRequests)
    \/ \E kind \in BodyKinds : Acquire(1, kind)
    \/ ChatReturn(1)
    \/ Finally(1)

SpecRateKeys == InitRateKeys /\ [][NextRateKeys]_vars

\* the limiter has answered thread w in this step, whether it read the clock in the same
\* step or before
Answered(w) == AtLimiter(w) \/ (gpc[w] = "idle" /\ gpc'[w] \in {"admitted", "finally"})

EvictStep ==
    \A w \in Workers :
        Answered(w) =>
            \A ip \in DOMAIN rateBuckets' : Purge(rateBuckets'[ip], greq'[w].now) # <<>>

\* C19: whatever requests arrive from however many remote IPs, the rate-limit map holds
\* at most 5,000 keys, and after an admission it holds no key whose window has emptied
C19_AtMost5000Keys ==
    [](Cardinality(DOMAIN rateBuckets) <= 5000) /\ [][EvictStep]_vars

\* the request threads that are serving a request, and the records of request rid
Serving == {w \in Workers : gpc[w] \notin {"idle", "unused"}}

RecordsOf(log, rid) == {e \in log : e[1] = rid}

Outcomes == {200, 400, 413, 429, 503, 500}

\* a request leaves do_POST with one response, whose header names it, and one new record
OneRecordOneResponse(w) ==
    /\ Len(greq[w].responses) = 1
    /\ greq[w].responses[1].x_request_id = greq[w].request_id
    /\ greq[w].responses[1].status = greq[w].status
    /\ greq[w].status \in Outcomes
    /\ RecordsOf(reqLog, greq[w].request_id) = {}
    /\ reqLog' = reqLog \cup {<<greq[w].request_id, 1>>}

RecordStep ==
    /\ \A w \in Workers : Leaves(w) => OneRecordOneResponse(w)
    /\ (\A w \in Workers : ~Leaves(w)) => reqLog' = reqLog

Owner(r) == hplan[1].steps[IdxPos(hplan[1].steps, r.step_id[1])]

\* C21: when a provider rejects a dispatched call with an error in the dict it returns,
\* without raising, the step that owns the call has status failed when the turn returns
C21_ProviderRejectionFailsStep ==
    (hpc = "returned" /\ hplan # <<>>) =>
        \A k \in 1..Len(out.tool_results) :
            out.tool_results[k].provider_error # "" => Owner(out.tool_results[k]).status = "failed"

\* the loop body has applied the results of a batch in this step
BatchApplied == hpc = "dispatch" /\ hpc' = "loop"

SameCall == hplan # <<>> /\ hplan' # <<>> /\ turns' = turns

FailedCallsMarked ==
    /\ BatchApplied =>
          \A k \in 1..Len(hresults) :
              ~hresults[k].ok => hplan'[1].steps[hcalls.pos[k]].status = "failed"
    /\ SameCall =>
          /\ Len(hplan'[1].steps) = Len(hplan[1].steps)
          /\ \A j \in 1..Len(hplan[1].steps) :
                 hplan[1].steps[j].status = "failed" => hplan'[1].steps[j].status = "failed"

FromException == hpc = "returned" /\ {"type", "message"} \subseteq out.details

\* C23: handle_chat does not raise; an exception raised while a turn is processed is
\* returned as ok = false, error MASTERAGENT_EXCEPTION, details {type, message}, and when
\* a plan existed by then the last checkpoint of the turn has status failed
C23_ExceptionsAreReturned ==
    FromException =>
        /\ ~out.ok
        /\ out.error = "MASTERAGENT_EXCEPTION"
        /\ out.details = {"type", "message"}
        /\ hplan # <<>> => (ckLog # <<>> /\ ckLog[Len(ckLog)] = "failed")

\* the current call asked the model for a plan, and the reply was the object o
Planned(o) ==
    /\ hpc = "returned"
    /\ hreq.message # "" /\ hreq.session_ok /\ hreq.ctx_ok /\ hreq.plan_id = ""
    /\ llmPlan.kind = "json" /\ llmPlan.obj = o

\* the checkpoint files that hold status with a plan that keeps raw and adapted
DebugFiles(status, raw, adapted) ==
    {f \in ckFiles : /\ f.state.status = status
                     /\ "raw_plan" \in DOMAIN f.state.plan
                     /\ f.state.plan.raw_plan = raw
                     /\ f.state.plan.adapted_plan = adapted}

\* C24: when the reply of the model is valid JSON whose steps is not a list, handle_chat
\* returns ok = true with error PLAN_NORMALIZE_FAILED, dispatches no tool, and writes a
\* checkpoint failed_normalize whose plan keeps raw_plan and adapted_plan
C24_StepsNotAListFailsNormalize ==
    \A o \in {x \in TurnOddObjs : x.is_dict /\ x.steps_kind = "nonlist"} :
        Planned(o) =>
            /\ out.ok
            /\ out.error = "PLAN_NORMALIZE_FAILED"
            /\ out.tool_results = <<>> /\ out.tool_batches = 0
            /\ out.checkpoint = "failed_normalize"
            /\ DebugFiles("failed_normalize", o, AdaptPlanObj(o, Message)) # {}

\* C25: whenever handle_chat returns ok = true, on every path, the checkpoint field of the
\* result is the record of a written checkpoint (a status, and a file with a plan_id)
C25_OkResultCarriesCheckpoint ==
    (hpc = "returned" /\ out.ok) =>
        /\ out.checkpoint # ""
        /\ \E f \in ckFiles : f.state.status = out.checkpoint /\ f.state.plan.plan_id # ""

\* the replies of the model in the tool-calls + final dialect
ToolCallReplies ==
    {o \in TurnOddObjs : o.is_dict /\ o.steps_kind = "absent" /\ o.tool_calls_kind = "list"}

\* steps is one tool step per call of calls, in order, then the note step final that
\* depends on exactly those tool steps
ToolStepsThenFinal(steps, calls) ==
    LET n == Len(calls)
    IN  /\ Len(steps) = n + 1
        /\ \A k \in 1..n : /\ steps[k].type = "tool"
                           /\ steps[k].tool.name = calls[k].name
                           /\ steps[k].tool.method = calls[k].method
        /\ steps[n + 1].type = "note"
        /\ steps[n + 1].title = "final"
        /\ {steps[n + 1].depends_on[j] : j \in 1..Len(steps[n + 1].depends_on)}
               = {steps[k].id : k \in 1..n}

\* C26: when the reply of the model is in the tool-calls + final dialect with n calls, the
\* plan handle_chat executes and checkpoints has one tool step per call, in call order,
\* and a last note step titled final whose depends_on is the ids of all the tool steps
C26_ToolCallsPlanEndsWithFinal ==
    \A o \in ToolCallReplies :
        (Planned(o) /\ hplan # <<>>) =>
            /\ ToolStepsThenFinal(hplan[1].steps, o.tool_calls)
            /\ \E f \in ckFiles : /\ f.state.plan.plan_id = hplan[1].plan_id
                                  /\ ToolStepsThenFinal(f.state.plan.steps, o.tool_calls)

\* ------------------------------------ context policy and semantic index, model
\* A Python str is the sequence of its characters here, so that strip, slices and
\* the per-character filter of _session_path are computed as the code computes them.
MaxFinalizeCalls == 3
MaxDays == 1

\* assistant_output[:2000] in the raw text of the chunk id
SummaryKeyChars == 2000
head_n == 1200
tail_n == 1200
\* the hard cap of _distill
DistillCap == 5000

IsSpace(ch) == ch \in {" ", "\n", "\t"}

RECURSIVE LStrip(_)
LStrip(str) == IF str = <<>> \/ ~IsSpace(Head(str)) THEN str ELSE LStrip(Tail(str))

RECURSIVE RStrip(_)
RStrip(str) ==
    IF str = <<>> \/ ~IsSpace(str[Len(str)]) THEN str ELSE RStrip(SubSeq(str, 1, Len(str) - 1))

\* str.strip()
Strip(str) == RStrip(LStrip(str))

\* str[:n]
Prefix(str, n) == SubSeq(str, 1, IF Len(str) < n THEN Len(str) ELSE n)

\* str[-n:]
Suffix(str, n) == SubSeq(str, IF Len(str) < n THEN 1 ELSE Len(str) - n + 1, Len(str))

Letters == {"s", "t", "u", "o", "k", "a", "b", "x"}

\* MemoryOS._session_path: the characters kept in the file name; <<>> makes it raise
SessionPath(session_id) ==
    SelectSeq(Strip(session_id), LAMBDA ch : ch \in Letters \cup {"-", "_", "."})

\* time.strftime("%Y-%m-%d"): the date as one character-like token per day
DateText(day) == <<"day", day>>

\* add_turn: the turn it builds; json.dumps keeps every field
TurnLine(role, message, ts, status) ==
    [ts |-> ts, role |-> role, message |-> message, status |-> status]

\* add_turn: path.open("a") and f.write(line + "\n")
AppendLine(files, path, line) ==
    LET old == IF path \in DOMAIN files THEN files[path] ELSE <<>>
    IN  [q \in DOMAIN files \cup {path} |-> IF q = path THEN Append(old, line) ELSE files[q]]

\* MemoryOS.add_turn on a valid session, with no other thread around
AddTurn(files, role, message, session_id, ts, status) ==
    AppendLine(files, SessionPath(session_id), TurnLine(role, message, ts, status))

HdrTask == <<"#", "#", "#", " ", "T", "A", "S", "K">>
HdrResult == <<"#", "#", "#", " ", "R", "E", "S", "U", "L", "T", " ",
               "(", "d", "i", "s", "t", "i", "l", "l", "e", "d", ")">>
HdrTail == <<"#", "#", "#", " ", "R", "E", "S", "U", "L", "T", " ", "(", "t", "a", "i", "l", ")">>
NL == <<"\n">>

\* ContextPolicy._distill
Distill(task, assistant_output) ==
    LET o    == Strip(assistant_output)
        head == Prefix(o, head_n)
        tail == IF Len(o) > tail_n THEN Suffix(o, tail_n) ELSE <<>>
        text == HdrTask \o NL \o task \o NL \o NL \o HdrResult \o NL \o head
                \o (IF tail # <<>> /\ tail # head
                    THEN NL \o NL \o HdrTail \o NL \o tail ELSE <<>>)
    IN  Prefix(text, DistillCap)

\* the whole output in the raw text, in place of its first 2000 characters
RawSummaryWhole(session_id, today, task, assistant_output) ==
    session_id \o <<"|">> \o today \o <<"|">> \o Strip(task) \o <<"|">> \o assistant_output

\* finalize_task: raw, the text that is hashed into the chunk id
RawSummary(session_id, today, task, assistant_output) ==
    session_id \o <<"|">> \o today \o <<"|">> \o Strip(task) \o <<"|">>
        \o Prefix(assistant_output, SummaryKeyChars)

\* hashlib.sha256(raw).hexdigest()[:24], as an injective symbolic hash
Sha24(raw) == <<"sha256">> \o raw

\* RAGEngine.upsert_chunk; db_ok = FALSE: sqlite raised
UpsertChunk(chunks, source_id, chunk_id, text, meta, ts, db_ok) ==
    IF Strip(source_id) = <<>> THEN [ok |-> FALSE, error |-> "INVALID_SOURCE_ID", chunks |-> chunks]
    ELSE IF Strip(chunk_id) = <<>>
         THEN [ok |-> FALSE, error |-> "INVALID_CHUNK_ID", chunks |-> chunks]
    ELSE IF Strip(text) = <<>> THEN [ok |-> FALSE, error |-> "INVALID_TEXT", chunks |-> chunks]
    ELSE IF ~db_ok THEN [ok |-> FALSE, error |-> "RAG_UPSERT_EXCEPTION", chunks |-> chunks]
    ELSE LET row == [source_id |-> Strip(source_id), chunk_id |-> Strip(chunk_id),
                     text |-> text, meta |-> meta, updated_ts |-> ts]
         IN  [ok |-> TRUE, error |-> "",
              chunks |-> {c \in chunks : ~(c.source_id = row.source_id
                                           /\ c.chunk_id = row.chunk_id)} \cup {row}]

TaskSummaries == <<"t", "a", "s", "k", "_", "s", "u", "m", "m", "a", "r", "i", "e", "s">>

\* the (session, date, task, output[:2000]) of a finalize_task call
TaskKey(session_id, day, task, assistant_output) ==
    <<session_id, day, task, Prefix(assistant_output, SummaryKeyChars)>>

\* ContextPolicy.finalize_task
FinalizeTask(session_id, task, assistant_output, status, db_ok) ==
    LET key   == TaskKey(session_id, ragDay, task, assistant_output)
        again == \E e \in ragSeen : e[1] = key
        ret(err) == [key |-> key, ok |-> FALSE, error |-> err, chunk_id |-> <<>>, again |-> again]
        chunk_id == Sha24(RawSummary(session_id, DateText(ragDay), task, assistant_output))
        meta  == [session_id |-> session_id, status |-> Strip(status), date |-> DateText(ragDay),
                  ts |-> ragCalls, kind |-> "task_summary"]
        res   == UpsertChunk(ragChunks, TaskSummaries, chunk_id,
                             Distill(Strip(task), assistant_output), meta, ragCalls, db_ok)
    IN  /\ ragCalls < MaxFinalizeCalls
        /\ ragCalls' = ragCalls + 1
        /\ IF Strip(task) = <<>>
           THEN /\ ragLast' = ret("INVALID_TASK")
                /\ UNCHANGED <<convFiles, ragChunks, ragSeen>>
           ELSE IF Strip(status) = <<>>
           THEN /\ ragLast' = ret("INVALID_STATUS")
                /\ UNCHANGED <<convFiles, ragChunks, ragSeen>>
           ELSE IF SessionPath(session_id) = <<>>
           THEN /\ ragLast' = ret("FINALIZE_EXCEPTION")
                /\ UNCHANGED <<convFiles, ragChunks, ragSeen>>
           ELSE /\ convFiles' = AddTurn(convFiles, "assistant", assistant_output, session_id,
                                        ragCalls, Strip(status))
                /\ ragChunks' = res.chunks
                /\ IF res.ok
                   THEN /\ ragLast' = [key |-> key, ok |-> TRUE, error |-> "",
                                       chunk_id |-> chunk_id, again |-> again]
                        /\ ragSeen' = ragSeen \cup {<<key, chunk_id>>}
                   ELSE /\ ragLast' = ret("RAG_UPSERT_FAILED")
                        /\ UNCHANGED ragSeen
        /\ UNCHANGED <<ragDay, memThreadVars, notMemory>>

\* midnight passes
NextDay ==
    /\ ragDay < MaxDays
    /\ ragDay' = ragDay + 1
    /\ UNCHANGED <<convFiles, ragChunks, ragCalls, ragSeen, ragLast, memThreadVars, notMemory>>

\* an output of 2001 characters: 2000 times x, then ch
LongOutput(ch) == [i \in 1..(SummaryKeyChars + 1) |-> IF i <= SummaryKeyChars THEN "x" ELSE ch]

FinalizeSessions == {<<"s">>, <<"|">>}
FinalizeTasks == {<<"t">>, <<" ", "t">>, <<" ">>}
FinalizeOutputs == {LongOutput("a"), LongOutput("b"), <<"o">>}
FinalizeStatuses == {<<"o", "k">>, <<" ">>}

\* a chunk another caller of the index put under its own source
ForeignChunk ==
    [source_id |-> <<"d", "o", "c", "s">>, chunk_id |-> <<"c", "1">>, text |-> <<"x">>,
     meta |-> <<>>, updated_ts |-> 0]

InitFinalize ==
    /\ PlannerUnused
    /\ StoreUnused
    /\ TurnUnused
    /\ GatewayUnused
    /\ ToolsUnused
    /\ OthersUnused
    /\ convFiles = <<>>
    /\ ragChunks = {ForeignChunk}
    /\ ragDay = 0
    /\ ragCalls = 0
    /\ ragSeen = {}
    /\ ragLast = NoFinalize
    /\ mpc = <<>>
    /\ mloc = <<>>
    /\ memLock = 0
    /\ memCalls = <<>>

Finalize ==
    \E session_id \in FinalizeSessions : \E task \in FinalizeTasks :
        \E assistant_output \in FinalizeOutputs : \E status \in FinalizeStatuses :
            \E db_ok \in BOOLEAN :
                FinalizeTask(session_id, task, assistant_output, status, db_ok)

NextFinalize == Finalize \/ NextDay

SpecFinalize == InitFinalize /\ [][NextFinalize]_vars

\* --------------------------------------------------- semantic index, claims
\* the step is a finalize_task that returns ok for a key finalized before
FinalizedAgain == ragCalls' = ragCalls + 1 /\ ragLast'.ok /\ ragLast'.again

\* C27: finalizing the same (session, date, task, output[:2000]) again upserts under the
\* chunk id of the first time, leaves the number of chunks of the index as it was, and
\* leaves every chunk under another key as it was
C27_FinalizeTwiceKeepsChunkCount ==
    [][FinalizedAgain =>
           /\ \A e \in ragSeen : e[1] = ragLast'.key => e[2] = ragLast'.chunk_id
           /\ Cardinality(ragChunks') = Cardinality(ragChunks)
           /\ \A c \in ragChunks :
                  (c.source_id # TaskSummaries \/ c.chunk_id # ragLast'.chunk_id)
                      => c \in ragChunks']_vars

\* a key was finalized a second time, next to summaries under other keys
C27_Witness == ragLast.ok /\ ragLast.again /\ Cardinality(ragChunks) >= 3

\* ----------------------------------------- conversation log under threads, model
\* Each chat thread runs handle_chat on the one session: add_turn("user"), then either
\* an error return or finalize_task, which is add_turn("assistant") and the upsert.
NumMemThreads == 2
MaxMemTurns == 2

MemThreads == 1..NumMemThreads
MemSession == <<"s">>
NoLine == [path |-> <<>>, line |-> TurnLine("", <<>>, 0, <<>>), turn |-> 0]

\* add_turn up to the lock: the turn with ts = time.time(), the path and the dumped line
Invoke(t, role, message, status, turn) ==
    LET ts == Len(memCalls) + 1
    IN  /\ mloc' = [mloc EXCEPT ![t] = [path |-> SessionPath(MemSession),
                                        line |-> TurnLine(role, message, ts, status),
                                        turn |-> turn]]
        /\ memCalls' = Append(memCalls, [thread |-> t, turn |-> turn,
                                         line |-> TurnLine(role, message, ts, status)])

\* handle_chat: self.memory.add_turn("user", message, session_id=session_id)
ChatInvokeUser(t) ==
    /\ mpc[t].at = "idle"
    /\ mpc[t].turns < MaxMemTurns
    /\ Invoke(t, "user", <<"q">>, <<>>, mpc[t].turns + 1)
    /\ mpc' = [mpc EXCEPT ![t] = [at |-> "user_built", turns |-> @.turns + 1]]
    /\ UNCHANGED <<convFiles, ragChunks, ragDay, ragCalls, ragSeen, ragLast, memLock, notMemory>>

\* add_turn: with self._lock
MemAcquire(t) ==
    /\ mpc[t].at \in {"user_built", "assistant_built"}
    /\ memLock = 0
    /\ memLock' = t
    /\ mpc' = [mpc EXCEPT ![t].at = IF @ = "user_built" THEN "user_locked" ELSE "assistant_locked"]
    /\ UNCHANGED <<convFiles, ragChunks, ragDay, ragCalls, ragSeen, ragLast, mloc, memCalls,
                   notMemory>>

\* add_turn: the append, and the end of the with block
MemWrite(t) ==
    /\ mpc[t].at \in {"user_locked", "assistant_locked"}
    /\ memLock = t
    /\ convFiles' = AppendLine(convFiles, mloc[t].path, mloc[t].line)
    /\ memLock' = 0
    /\ mpc' = [mpc EXCEPT ![t].at = IF @ = "user_locked" THEN "planning" ELSE "upsert"]
    /\ UNCHANGED <<ragChunks, ragDay, ragCalls, ragSeen, ragLast, mloc, memCalls, notMemory>>

\* handle_chat returns on an error path: no finalize_task
ChatFail(t) ==
    /\ mpc[t].at = "planning"
    /\ mpc' = [mpc EXCEPT ![t].at = "idle"]
    /\ UNCHANGED <<convFiles, ragChunks, ragDay, ragCalls, ragSeen, ragLast, mloc, memLock,
                   memCalls, notMemory>>

\* finalize_task: self.memory.add_turn("assistant", assistant_output, ...)
FinalizeInvoke(t) ==
    /\ mpc[t].at = "planning"
    /\ Invoke(t, "assistant", <<"a">>, <<"o", "k">>, mpc[t].turns)
    /\ mpc' = [mpc EXCEPT ![t].at = "assistant_built"]
    /\ UNCHANGED <<convFiles, ragChunks, ragDay, ragCalls, ragSeen, ragLast, memLock, notMemory>>

\* finalize_task: the summary chunk, then handle_chat returns
FinalizeUpsert(t) ==
    /\ mpc[t].at = "upsert"
    /\ LET chunk_id == Sha24(RawSummary(MemSession, DateText(ragDay), <<"q">>, <<"a">>))
           meta == [session_id |-> MemSession, status |-> <<"o", "k">>,
                    date |-> DateText(ragDay), ts |-> Len(memCalls), kind |-> "task_summary"]
       IN  ragChunks' = UpsertChunk(ragChunks, TaskSummaries, chunk_id,
                                    Distill(<<"q">>, <<"a">>), meta, Len(memCalls), TRUE).chunks
    /\ mpc' = [mpc EXCEPT ![t].at = "idle"]
    /\ UNCHANGED <<convFiles, ragDay, ragCalls, ragSeen, ragLast, mloc, memLock, memCalls,
                   notMemory>>

InitMemory ==
    /\ PlannerUnused
    /\ StoreUnused
    /\ TurnUnused
    /\ GatewayUnused
    /\ ToolsUnused
    /\ OthersUnused
    /\ convFiles = <<>>
    /\ ragChunks = {}
    /\ ragDay = 0
    /\ ragCalls = 0
    /\ ragSeen = {}
    /\ ragLast = NoFinalize
    /\ mpc = [t \in MemThreads |-> [at |-> "idle", turns |-> 0]]
    /\ mloc = [t \in MemThreads |-> NoLine]
    /\ memLock = 0
    /\ memCalls = <<>>

NextMemory ==
    \E t \in MemThreads :
        \/ ChatInvokeUser(t)
        \/ MemAcquire(t)
        \/ MemWrite(t)
        \/ ChatFail(t)
        \/ FinalizeInvoke(t)
        \/ FinalizeUpsert(t)

SpecMemory == InitMemory /\ [][NextMemory]_vars

\* ------------------------------------------------- conversation log, claims
\* the log of the session
SessionLog ==
    IF SessionPath(MemSession) \in DOMAIN convFiles THEN convFiles[SessionPath(MemSession)]
    ELSE <<>>

\* the entries are in the order in which their add_turn calls were made
InCallOrder ==
    \A i \in 1..Len(SessionLog) : \A j \in 1..Len(SessionLog) :
        i < j => SessionLog[i].ts < SessionLog[j].ts

\* every entry is the whole line of one add_turn call
WholeLines ==
    \A i \in 1..Len(SessionLog) :
        /\ SessionLog[i].ts \in 1..Len(memCalls)
        /\ SessionLog[i] = memCalls[SessionLog[i].ts].line

\* the handle_chat turn an entry belongs to
TurnOf(line) == <<memCalls[line.ts].thread, memCalls[line.ts].turn>>

\* an assistant message stands after the user message of its turn
UserFirst ==
    \A j \in 1..Len(SessionLog) :
        SessionLog[j].role = "assistant" =>
            \E i \in 1..(j - 1) : /\ SessionLog[i].role = "user"
                                  /\ TurnOf(SessionLog[i]) = TurnOf(SessionLog[j])

\* no step changes or removes an entry of a session file
AppendOnly ==
    \A path \in DOMAIN convFiles :
        /\ path \in DOMAIN convFiles'
        /\ Len(convFiles'[path]) >= Len(convFiles[path])
        /\ SubSeq(convFiles'[path], 1, Len(convFiles[path])) = convFiles[path]

\* C28: on one session, under any interleaving of threads, the conversation log holds the
\* turns in the order the add_turn calls were made, every entry is a whole line, no
\* add_turn changes or removes an entry, and the user message of a handle_chat turn is
\* appended before its assistant message
C28_LogKeepsCallOrder ==
    /\ [](InCallOrder /\ WholeLines /\ UserFirst)
    /\ [][AppendOnly]_vars

\* ---------------------------------------------------- alias resolution, model
\* the names and methods of the alias tables, as character sequences
W ==
    [browser |-> <<"b", "r", "o", "w", "s", "e", "r">>,
     terminal |-> <<"t", "e", "r", "m", "i", "n", "a", "l">>,
     file |-> <<"f", "i", "l", "e">>,
     ping |-> <<"p", "i", "n", "g">>,
     fetch |-> <<"f", "e", "t", "c", "h">>,
     get |-> <<"g", "e", "t">>,
     get_url |-> <<"g", "e", "t", "_", "u", "r", "l">>,
     download |-> <<"d", "o", "w", "n", "l", "o", "a", "d">>,
     httpget |-> <<"h", "t", "t", "p", "g", "e", "t">>,
     http_get |-> <<"h", "t", "t", "p", "_", "g", "e", "t">>,
     exec |-> <<"e", "x", "e", "c">>,
     run |-> <<"r", "u", "n">>,
     cmd |-> <<"c", "m", "d">>,
     run_cmd |-> <<"r", "u", "n", "_", "c", "m", "d">>,
     read |-> <<"r", "e", "a", "d">>,
     read_text |-> <<"r", "e", "a", "d", "_", "t", "e", "x", "t">>,
     write |-> <<"w", "r", "i", "t", "e">>,
     write_text |-> <<"w", "r", "i", "t", "e", "_", "t", "e", "x", "t">>,
     ls |-> <<"l", "s">>,
     dir |-> <<"d", "i", "r">>,
     list_dir |-> <<"l", "i", "s", "t", "_", "d", "i", "r">>,
     mkdir |-> <<"m", "k", "d", "i", "r">>,
     mkdirs |-> <<"m", "k", "d", "i", "r", "s">>]

Str(chars) == [is_str |-> TRUE, chars |-> chars]

\* str(x).strip() if isinstance(x, str) else ""
StripOrEmpty(x) == IF x.is_str THEN Strip(x.chars) ELSE <<>>

\* args if isinstance(args, dict) else {}
DictOrEmpty(args) == IF args.is_dict THEN args ELSE [is_dict |-> TRUE, keys |-> {}]

\* a table that has lost the alias dir of file
CanonicalizeDrift(name, method, args) ==
    LET n == StripOrEmpty(name)
        m == StripOrEmpty(method)
        m2 == IF n = W.browser
              THEN IF m \in {W.fetch, W.get, W.get_url, W.download, W.httpget}
                   THEN W.http_get ELSE m
              ELSE IF n = W.terminal
              THEN IF m \in {W.exec, W.run, W.cmd} THEN W.run_cmd ELSE m
              ELSE IF n = W.file
              THEN IF m = W.read THEN W.read_text
                   ELSE IF m = W.write THEN W.write_text
                   ELSE IF m = W.ls THEN W.list_dir
                   ELSE IF m = W.mkdir THEN W.mkdirs
                   ELSE m
              ELSE m
    IN  [name |-> n, method |-> m2, args |-> DictOrEmpty(args)]

\* tool_canonicalization.canonicalize
Canonicalize(name, method, args) ==
    LET n == StripOrEmpty(name)
        m == StripOrEmpty(method)
        m2 == IF n = W.browser
              THEN IF m \in {W.fetch, W.get, W.get_url, W.download, W.httpget}
                   THEN W.http_get ELSE m
              ELSE IF n = W.terminal
              THEN IF m \in {W.exec, W.run, W.cmd} THEN W.run_cmd ELSE m
              ELSE IF n = W.file
              THEN IF m = W.read THEN W.read_text
                   ELSE IF m = W.write THEN W.write_text
                   ELSE IF m \in {W.ls, W.dir} THEN W.list_dir
                   ELSE IF m = W.mkdir THEN W.mkdirs
                   ELSE m
              ELSE m
    IN  [name |-> n, method |-> m2, args |-> DictOrEmpty(args)]

\* MasterAgent._canonicalize_tool_call, on any Python values
CanonicalizeCall(name, method, args) ==
    LET n == IF name.is_str THEN Strip(name.chars) ELSE <<>>
        m == IF method.is_str THEN Strip(method.chars) ELSE <<>>
        a == IF args.is_dict THEN args ELSE [is_dict |-> TRUE, keys |-> {}]
        m2 == IF n = W.browser
              THEN IF m \in {W.fetch, W.get, W.get_url, W.download, W.httpget}
                   THEN W.http_get ELSE m
              ELSE IF n = W.terminal
              THEN IF m \in {W.exec, W.run, W.cmd} THEN W.run_cmd ELSE m
              ELSE IF n = W.file
              THEN IF m = W.read THEN W.read_text
                   ELSE IF m = W.write THEN W.write_text
                   ELSE IF m \in {W.ls, W.dir} THEN W.list_dir
                   ELSE IF m = W.mkdir THEN W.mkdirs
                   ELSE m
              ELSE m
    IN  [name |-> n, method |-> m2, args |-> a]

Padded(chars) == <<" ">> \o chars \o <<"\n">>

CanonNames ==
    {Str(W.browser), Str(W.terminal), Str(W.file), Str(W.ping), Str(Padded(W.browser)),
     Str(<<>>), NoStr}

CanonMethods ==
    {Str(W[f]) : f \in DOMAIN W \ {"browser", "terminal", "file"}}
        \cup {Str(Padded(W.fetch)), Str(Padded(W.ping)), Str(<<" ">>), NoStr}

CanonArgs == {[is_dict |-> TRUE, keys |-> {"url"}], [is_dict |-> FALSE, keys |-> {}]}

InitCanon ==
    /\ PlannerUnused
    /\ StoreUnused
    /\ TurnUnused
    /\ GatewayUnused
    /\ MemoryUnused
    /\ OthersUnused
    /\ BrowserUnused
    /\ TerminalUnused
    /\ canonIn \in [name : CanonNames, method : CanonMethods, args : CanonArgs]
    /\ canonOut = <<>>

\* both resolvers on the same input, and canonicalize on its own result
Resolve ==
    /\ canonOut = <<>>
    /\ LET r == Canonicalize(canonIn.name, canonIn.method, canonIn.args)
       IN  canonOut' = <<[module |-> r,
                          orchestrator |-> CanonicalizeCall(canonIn.name, canonIn.method,
                                                            canonIn.args),
                          twice |-> Canonicalize(Str(r.name), Str(r.method), r.args)]>>
    /\ UNCHANGED <<canonIn, browserVars, terminalVars, notTools>>

NextCanon == Resolve

SpecCanon == InitCanon /\ [][NextCanon]_vars

\* --------------------------------------------------- alias resolution, claims
\* the table of the specification: <<provider, alias, canonical method>>
AliasTable ==
    {<<W.browser, W[a], W.http_get>> : a \in {"fetch", "get", "get_url", "download", "httpget"}}
        \cup {<<W.terminal, W[a], W.run_cmd>> : a \in {"exec", "run", "cmd"}}
        \cup {<<W.file, W.read, W.read_text>>, <<W.file, W.write, W.write_text>>,
              <<W.file, W.ls, W.list_dir>>, <<W.file, W.dir, W.list_dir>>,
              <<W.file, W.mkdir, W.mkdirs>>}

\* what the table makes of provider n and method m
Resolved(n, m) ==
    IF \E e \in AliasTable : e[1] = n /\ e[2] = m
    THEN (CHOOSE e \in AliasTable : e[1] = n /\ e[2] = m)[3]
    ELSE m

\* the resolvers agree, and resolving the result again changes nothing
OneIdempotentResolver ==
    /\ canonOut[1].orchestrator = canonOut[1].module
    /\ canonOut[1].twice = canonOut[1].module

\* C29 as stated: the result is the table applied to the name and method as handed in:
\* the provider name and every pair outside the table come back unchanged
C29_AliasResolutionIsOneFunction ==
    (canonOut # <<>> /\ canonIn.name.is_str /\ canonIn.method.is_str) =>
        /\ canonOut[1].module.name = canonIn.name.chars
        /\ canonOut[1].module.method = Resolved(canonIn.name.chars, canonIn.method.chars)
        /\ OneIdempotentResolver

\* C29, amended: alias resolution is one total function: the result is the table applied
\* to the name and method stripped of surrounding whitespace (a value that is no str counts
\* as the empty string, args that are no dict as the empty dict); it is idempotent, and the
\* resolver of the orchestrator returns what tool_canonicalization.canonicalize returns
C29_AliasResolutionUpToStrip ==
    canonOut # <<>> =>
        /\ canonOut[1].module.name = StripOrEmpty(canonIn.name)
        /\ canonOut[1].module.method
               = Resolved(StripOrEmpty(canonIn.name), StripOrEmpty(canonIn.method))
        /\ canonOut[1].module.args = DictOrEmpty(canonIn.args)
        /\ OneIdempotentResolver

\* an alias with whitespace around it was resolved for a provider with whitespace around it
C29_Witness ==
    /\ canonOut # <<>>
    /\ canonIn.name = Str(Padded(W.browser))
    /\ canonIn.method = Str(Padded(W.fetch))
    /\ canonOut[1].orchestrator.method = W.http_get

\* ------------------------------------------------------- HTTP fetcher, model
\* A host name is the sequence of its labels, lower case.  An address is its family,
\* its first two octets (IPv4) or its text as characters (IPv6).
MaxDnsChanges == 1
MaxRedirects == 1

Ip4(a, b) == [family |-> 4, a |-> a, b |-> b, text |-> <<>>]
Ip6(text) == [family |-> 6, a |-> 0, b |-> 0, text |-> text]

\* BrowserTools._is_blocked_ipv4
IsBlockedIpv4(ip) ==
    \/ ip.a \in {0, 10, 127}
    \/ ip.a = 169 /\ ip.b = 254
    \/ ip.a = 172 /\ 16 <= ip.b /\ ip.b <= 31
    \/ ip.a = 192 /\ ip.b = 168
    \/ ip.a = 100 /\ 64 <= ip.b /\ ip.b <= 127

\* BrowserTools._is_blocked_ipv6
IsBlockedIpv6(ip) ==
    \/ ip.text = <<":", ":", "1">>
    \/ Prefix(ip.text, 5) = <<"f", "e", "8", "0", ":">>
    \/ Prefix(ip.text, 2) \in {<<"f", "c">>, <<"f", "d">>}

\* BrowserTools._is_blocked_ip
IsBlockedIp(ip) == IF ip.family = 6 THEN IsBlockedIpv6(ip) ELSE IsBlockedIpv4(ip)

\* BrowserTools._host_allowlisted: a pattern is a host name, or * followed by labels
HostAllowlisted(host, allowlist) ==
    \E k \in 1..Len(allowlist) :
        LET pat == allowlist[k]
        IN  \/ pat = host
            \/ /\ Len(pat) >= 2 /\ pat[1] = "*"
               /\ Len(host) > Len(pat) - 1
               /\ Suffix(host, Len(pat) - 1) = Tail(pat)
               /\ host # Tail(pat)

\* BrowserTools._validate_url on a URL that urlparse split into scheme and host
ValidateUrl(url, answers, allowlist) ==
    IF ~url.is_str \/ url.blank THEN "INVALID_URL"
    ELSE IF url.scheme \notin {"http", "https"} THEN "INVALID_SCHEME"
    ELSE IF url.host = <<>> THEN "MISSING_HOST"
    ELSE IF answers[url.host] = {} THEN "DNS_RESOLUTION_FAILED"
    ELSE IF \E ip \in answers[url.host] : IsBlockedIp(ip) /\ ~HostAllowlisted(url.host, allowlist)
         THEN "LAN_HOST_NOT_ALLOWLISTED"
    ELSE ""

FooExampleCom == <<"foo", "example", "com">>
EvilTest == <<"evil", "test">>
BrowserHosts == {FooExampleCom, EvilTest}

Url(scheme, host) == [is_str |-> TRUE, blank |-> FALSE, scheme |-> scheme, host |-> host]

BrowserUrls ==
    {Url("http", FooExampleCom), Url("https", EvilTest), Url("ftp", EvilTest), Url("http", <<>>),
     [Url("", <<>>) EXCEPT !.blank = TRUE], [Url("", <<>>) EXCEPT !.is_str = FALSE]}

\* what a name server can answer
DnsAnswers ==
    {{}, {Ip4(93, 184)}, {Ip4(10, 0)}, {Ip4(93, 184), Ip6(<<":", ":", "1">>)}, {Ip4(100, 64)}}

BrowserDone(err) ==
    /\ bpc' = "done"
    /\ bout' = [bout EXCEPT !.ok = (err = ""), !.error = err]

\* BrowserTools.run up to urlopen
BrowserRun(method, url, timeout) ==
    /\ bpc = "idle"
    /\ LET verr == ValidateUrl(url, dns, ballow)
       IN  IF method # "http_get" THEN BrowserDone("UNKNOWN_METHOD") /\ UNCHANGED bhost
           ELSE IF timeout <= 0 \/ timeout > 300
           THEN BrowserDone("INVALID_TIMEOUT") /\ UNCHANGED bhost
           ELSE IF verr # "" THEN BrowserDone(verr) /\ UNCHANGED bhost
           ELSE /\ bpc' = "connect"
                /\ bhost' = url.host
                /\ bout' = [bout EXCEPT !.url = <<url>>]
    /\ UNCHANGED <<ballow, dns, dnsChanges, bsent, bhops, canonVars, terminalVars, notTools>>

\* urlopen: the name is resolved again, and the request goes to one of the addresses
Connect ==
    /\ bpc = "connect"
    /\ IF dns[bhost] = {}
       THEN BrowserDone("BROWSERTOOLS_EXCEPTION") /\ UNCHANGED bsent
       ELSE /\ \E ip \in dns[bhost] : bsent' = bsent \cup {<<bhost, ip>>}
            /\ bpc' = "sent"
            /\ UNCHANGED bout
    /\ UNCHANGED <<bhost, ballow, dns, dnsChanges, bhops, canonVars, terminalVars, notTools>>

\* the server answers 200, or a status that urlopen raises as HTTPError
RespondFinal(status) ==
    /\ bpc = "sent"
    /\ BrowserDone(IF status = 200 THEN "" ELSE "BROWSERTOOLS_EXCEPTION")
    /\ UNCHANGED <<bhost, ballow, dns, dnsChanges, bsent, bhops, canonVars, terminalVars, notTools>>

\* the server answers 302 with a Location: urlopen follows it
RespondRedirect(host) ==
    /\ bpc = "sent"
    /\ bhops < MaxRedirects
    /\ bhops' = bhops + 1
    /\ bhost' = host
    /\ bpc' = "connect"
    /\ UNCHANGED <<ballow, dns, dnsChanges, bsent, bout, canonVars, terminalVars, notTools>>

\* the answer of the DNS for a host changes
DnsChange(host, answer) ==
    /\ bpc \in {"idle", "connect", "sent"}
    /\ dnsChanges < MaxDnsChanges
    /\ dns[host] # answer
    /\ dns' = [dns EXCEPT ![host] = answer]
    /\ dnsChanges' = dnsChanges + 1
    /\ UNCHANGED <<bpc, bhost, ballow, bsent, bhops, bout, canonVars, terminalVars, notTools>>

WildExampleCom == <<"*", "example", "com">>

InitBrowser ==
    /\ PlannerUnused
    /\ StoreUnused
    /\ TurnUnused
    /\ GatewayUnused
    /\ MemoryUnused
    /\ OthersUnused
    /\ CanonUnused
    /\ TerminalUnused
    /\ bpc = "idle"
    /\ bhost = <<>>
    /\ ballow \in {<<>>, <<WildExampleCom>>}
    /\ dns \in [BrowserHosts -> DnsAnswers]
    /\ dnsChanges = 0
    /\ bsent = {}
    /\ bhops = 0
    /\ bout = [ok |-> FALSE, error |-> "", url |-> <<>>]

NextBrowser ==
    \/ \E method \in {"http_get", "fetch"} : \E url \in BrowserUrls : \E timeout \in {15, 0} :
           BrowserRun(method, url, timeout)
    \/ Connect
    \/ \E status \in {200, 404} : RespondFinal(status)
    \/ \E host \in BrowserHosts : RespondRedirect(host)
    \/ \E host \in BrowserHosts : \E answer \in DnsAnswers : DnsChange(host, answer)

SpecBrowser == InitBrowser /\ [][NextBrowser]_vars

\* ------------------------------------------------------ HTTP fetcher, claims
\* C30: http_get never sends a request to an address of the blocklist unless the host name
\* matches the allowlist; this holds for the address connected to, also when the name
\* resolves differently between the check and the connection, and after a redirect
C30_NoRequestToBlockedAddress ==
    \A s \in bsent : IsBlockedIp(s[2]) => HostAllowlisted(s[1], ballow)

\* ----------------------------------------------------- terminal tool, model
\* An absolute path is the sequence of its components.  A command token is a str given
\* as the sequence of its path components, each a sequence of characters.
LowerOf ==
    [A |-> "a", B |-> "b", C |-> "c", D |-> "d", E |-> "e", F |-> "f", G |-> "g", H |->
     "h", I |-> "i", J |-> "j", K |-> "k", L |-> "l", M |-> "m", N |-> "n", O |-> "o", P
     |-> "p", Q |-> "q", R |-> "r", S |-> "s", T |-> "t", U |-> "u", V |-> "v", W |->
     "w", X |-> "x", Y |-> "y", Z |-> "z"]

\* str.lower(), character by character
LowerCh(ch) == IF ch \in DOMAIN LowerOf THEN LowerOf[ch] ELSE ch
Lower(str) == [i \in 1..Len(str) |-> LowerCh(str[i])]

UpperCh(ch) ==
    IF \E u \in DOMAIN LowerOf : LowerOf[u] = ch
    THEN CHOOSE u \in DOMAIN LowerOf : LowerOf[u] = ch ELSE ch
Upper(str) == [i \in 1..Len(str) |-> UpperCh(str[i])]

Python == <<"p", "y", "t", "h", "o", "n">>
Pip == <<"p", "i", "p">>
Git == <<"g", "i", "t">>
Bash == <<"b", "a", "s", "h">>
DotExe == <<".", "e", "x", "e">>

\* TerminalTools.__init__: the default allowlist, lower-cased
DefaultAllowed == {Lower(e) : e \in {Python, Pip, Git}}

\* the directory tree: base is /repo; /repo/out is a link to /etc, /repo/in to /repo/sub
TermBase == <<"repo">>
TermDirs == {<<>>, <<"repo">>, <<"repo", "sub">>, <<"etc">>, <<"repo2">>}
TermLinks == (<<"repo", "out">> :> <<"etc">>) @@ (<<"repo", "in">> :> <<"repo", "sub">>)

\* Path.resolve(): components left to right, .. pops, a link is replaced by its target
RECURSIVE ResolvePath(_, _)
ResolvePath(acc, segs) ==
    IF segs = <<>> THEN acc
    ELSE LET seg == Head(segs)
             nxt == IF seg = ".." THEN (IF acc = <<>> THEN acc ELSE SubSeq(acc, 1, Len(acc) - 1))
                    ELSE IF seg = "." THEN acc
                    ELSE Append(acc, seg)
         IN  ResolvePath(IF nxt \in DOMAIN TermLinks THEN TermLinks[nxt] ELSE nxt, Tail(segs))

\* base in target.parents
IsParent(base, target) ==
    Len(target) > Len(base) /\ SubSeq(target, 1, Len(base)) = base

\* _resolve_cwd without the test that the target stays under the base
ResolveCwdAnywhere(cwd) ==
    IF cwd.kind \in {"none", "empty"} THEN [ok |-> TRUE, error |-> "", path |-> TermBase]
    ELSE IF cwd.kind # "str" THEN [ok |-> FALSE, error |-> "ValueError", path |-> <<>>]
    ELSE LET target == ResolvePath(IF cwd.abs THEN <<>> ELSE TermBase, cwd.segs)
         IN  IF target \notin TermDirs
             THEN [ok |-> FALSE, error |-> "FileNotFoundError", path |-> <<>>]
             ELSE [ok |-> TRUE, error |-> "", path |-> target]

\* TerminalTools._resolve_cwd
ResolveCwd(cwd) ==
    IF cwd.kind \in {"none", "empty"} THEN [ok |-> TRUE, error |-> "", path |-> TermBase]
    ELSE IF cwd.kind # "str" THEN [ok |-> FALSE, error |-> "ValueError", path |-> <<>>]
    ELSE LET target == ResolvePath(IF cwd.abs THEN <<>> ELSE TermBase, cwd.segs)
         IN  IF TermBase # target /\ ~IsParent(TermBase, target)
             THEN [ok |-> FALSE, error |-> "PermissionError", path |-> <<>>]
             ELSE IF target \notin TermDirs
             THEN [ok |-> FALSE, error |-> "FileNotFoundError", path |-> <<>>]
             ELSE [ok |-> TRUE, error |-> "", path |-> target]

\* Path(argv[0]).name.lower(), with a trailing .exe cut off
ExeOf(token) ==
    LET name == IF token.segs = <<>> THEN <<>> ELSE token.segs[Len(token.segs)]
        exe  == Lower(name)
    IN  IF Len(exe) >= 4 /\ Suffix(exe, 4) = DotExe THEN SubSeq(exe, 1, Len(exe) - 4) ELSE exe

\* TerminalTools._normalize_cmd: argv and exe, or the ValueError
NormalizeCmd(cmd) ==
    IF cmd.kind = "list"
    THEN IF cmd.argv = <<>> \/ \E k \in 1..Len(cmd.argv) :
                                   ~cmd.argv[k].is_str \/ cmd.argv[k].segs = <<>>
         THEN [ok |-> FALSE, argv |-> <<>>, exe |-> <<>>]
         ELSE [ok |-> TRUE, argv |-> cmd.argv, exe |-> ExeOf(cmd.argv[1])]
    ELSE IF cmd.kind = "str"
    THEN IF cmd.argv = <<>> THEN [ok |-> FALSE, argv |-> <<>>, exe |-> <<>>]
         ELSE [ok |-> TRUE, argv |-> cmd.argv, exe |-> ExeOf(cmd.argv[1])]
    ELSE [ok |-> FALSE, argv |-> <<>>, exe |-> <<>>]

TermError(err) == <<[ok |-> FALSE, error |-> err]>>

\* TerminalTools.run; outcome is what subprocess.run does once it is reached
TerminalRun(allowed, outcome) ==
    /\ termOut = <<>>
    /\ termIn.method # ""
    /\ LET nc  == NormalizeCmd(termIn.cmd)
           cwd == ResolveCwd(termIn.cwd)
       IN  IF termIn.method # "run_cmd"
           THEN termOut' = TermError("UNKNOWN_METHOD") /\ UNCHANGED spawned
           ELSE IF termIn.timeout_sec <= 0 \/ termIn.timeout_sec > 3600
           THEN termOut' = TermError("INVALID_TIMEOUT") /\ UNCHANGED spawned
           ELSE IF termIn.env = "notdict"
           THEN termOut' = TermError("INVALID_ENV") /\ UNCHANGED spawned
           ELSE IF ~nc.ok
           THEN termOut' = TermError("TERMINALTOOLS_EXCEPTION") /\ UNCHANGED spawned
           ELSE IF nc.exe \notin allowed
           THEN termOut' = TermError("EXECUTABLE_NOT_ALLOWED") /\ UNCHANGED spawned
           ELSE IF ~cwd.ok
           THEN termOut' = TermError("TERMINALTOOLS_EXCEPTION") /\ UNCHANGED spawned
           ELSE IF termIn.env = "badkey"
           THEN termOut' = TermError("INVALID_ENV_KEY") /\ UNCHANGED spawned
           ELSE IF outcome = "oserror"
           THEN termOut' = TermError("TERMINALTOOLS_EXCEPTION") /\ UNCHANGED spawned
           ELSE /\ spawned' = spawned \cup {[argv |-> nc.argv, cwd |-> cwd.path]}
                /\ termOut' = IF outcome = "timeout" THEN TermError("TIMEOUT")
                              ELSE <<[ok |-> TRUE, error |-> ""]>>
    /\ UNCHANGED <<termIn, canonVars, browserVars, notTools>>

\* a command token: directories, then the name in lower or upper case with a suffix
ExeToken(dirs, name, upper, suffix) ==
    [is_str |-> TRUE, segs |-> Append(dirs, (IF upper THEN Upper(name) ELSE name) \o suffix)]

Arg == [is_str |-> TRUE, segs |-> <<<<"-", "c">>>>]

ExeSuffixes == {<<>>, DotExe, Upper(DotExe), DotExe \o DotExe, <<".", "e", "x">>}

TermTokens ==
    {ExeToken(dirs, name, upper, suffix) :
        dirs \in {<<>>, <<<<"t", "m", "p">>>>}, name \in {Python, Git, Bash},
        upper \in BOOLEAN, suffix \in ExeSuffixes}

TermCmds ==
    {[kind |-> "list", argv |-> <<tok, Arg>>] : tok \in TermTokens}
        \cup {[kind |-> "str", argv |-> <<tok>>] : tok \in TermTokens}
        \cup {[kind |-> "list", argv |-> <<>>], [kind |-> "str", argv |-> <<>>], NoCmd,
              [kind |-> "list", argv |-> <<[is_str |-> TRUE, segs |-> <<>>]>>],
              [kind |-> "str", argv |-> <<[is_str |-> TRUE, segs |-> <<>>]>>],
              [kind |-> "list", argv |-> <<ExeToken(<<>>, Git, FALSE, <<>>),
                                           [is_str |-> FALSE, segs |-> <<>>]>>]}

Cwd(abs, segs) == [kind |-> "str", abs |-> abs, segs |-> segs]

TermCwds ==
    {[kind |-> "none", abs |-> FALSE, segs |-> <<>>],
     [kind |-> "empty", abs |-> FALSE, segs |-> <<>>],
     [kind |-> "other", abs |-> FALSE, segs |-> <<>>],
     Cwd(FALSE, <<"sub">>), Cwd(FALSE, <<"sub", "..">>), Cwd(FALSE, <<"..">>),
     Cwd(FALSE, <<"sub", "..", "..", "etc">>), Cwd(FALSE, <<"out">>), Cwd(FALSE, <<"in">>),
     Cwd(FALSE, <<"in", "..", "..", "repo2">>), Cwd(FALSE, <<"missing">>),
     Cwd(TRUE, <<"etc">>), Cwd(TRUE, <<"repo2">>), Cwd(TRUE, <<"repo", "sub">>)}

InitTerminal ==
    /\ PlannerUnused
    /\ StoreUnused
    /\ TurnUnused
    /\ GatewayUnused
    /\ MemoryUnused
    /\ OthersUnused
    /\ CanonUnused
    /\ BrowserUnused
    /\ termIn \in [method : {"run_cmd", "exec"}, cmd : TermCmds, cwd : TermCwds,
                   timeout_sec : {60, 3601}, env : {"none", "notdict", "badkey"}]
    /\ termOut = <<>>
    /\ spawned = {}

NextTerminal == \E outcome \in {"exit", "timeout", "oserror"} : TerminalRun(DefaultAllowed, outcome)

SpecTerminal == InitTerminal /\ [][NextTerminal]_vars

\* ----------------------------------------------------- terminal tool, claims
\* the first tokens whose basename, lower-cased and without one trailing .exe, is allowed
AllowedTokens ==
    {ExeToken(dirs, name, upper, suffix) :
        dirs \in {<<>>, <<<<"t", "m", "p">>>>}, name \in {Python, Pip, Git},
        upper \in BOOLEAN, suffix \in {<<>>, DotExe, Upper(DotExe)}}

\* the directories equal to or under the base
UnderBase == {d \in TermDirs : Len(d) >= Len(TermBase) /\ SubSeq(d, 1, Len(TermBase)) = TermBase}

\* C31: run_cmd starts a subprocess only if the basename of the first token (lower-cased,
\* trailing .exe cut off) is in the executable allowlist and the resolved cwd is the base
\* directory or under it; in every other case it returns an error and starts no process
C31_SubprocessOnlyIfAllowed ==
    termOut # <<>> =>
        /\ \A p \in spawned : p.argv[1] \in AllowedTokens /\ p.cwd \in UnderBase
        /\ spawned = {} => ~termOut[1].ok /\ termOut[1].error # ""
        /\ termOut[1].ok => spawned # {}

\* GIT.EXE given with a directory was started in the directory a link inside the base names
C31_Witness ==
    /\ termOut # <<>> /\ termOut[1].ok
    /\ \E p \in spawned : /\ p.argv[1] = ExeToken(<<<<"t", "m", "p">>>>, Git, TRUE, Upper(DotExe))
                          /\ p.cwd = <<"repo", "sub">>
    /\ termIn.cwd = Cwd(FALSE, <<"in">>)


\* ---------------------------------------------------------------------------
\* POST /chat: the guards between the chat slot and handle_chat
\* ---------------------------------------------------------------------------

MaxAdmitRequests == 2

MAX_BODY_BYTES == 1048576

MAX_MESSAGE_CHARS == 100000

\* a request body as do_POST looks at it: the Content-Length header, what json.loads makes
\* of the bytes ("dict", "other" for another JSON value, "bad" for a decode error), and the
\* message, session_id and plan_id members of a dict
Body(clen, json, has_message, message_is_str, message_len, session_id_ok, plan_id_ok) ==
    [clen |-> clen, json |-> json, has_message |-> has_message,
     message_is_str |-> message_is_str, message_len |-> message_len,
     session_id_ok |-> session_id_ok, plan_id_ok |-> plan_id_ok]

\* the outcome of the guards of do_POST, in the order of the code
BodyKind(body) ==
    IF body.clen > MAX_BODY_BYTES THEN "too_large"
    ELSE LET b == IF body.clen > 0 THEN body ELSE NoBody
         IN  CASE b.json = "bad"                           -> "bad_json"
               [] b.json # "dict"                          -> "not_dict"
               [] ~b.has_message \/ ~b.message_is_str      -> "invalid"
               [] b.message_len > MAX_MESSAGE_CHARS        -> "too_large"
               [] ~b.session_id_ok                         -> "invalid"
               [] ~b.plan_id_ok                            -> "invalid"
               [] OTHER                                    -> "valid"

\* a dict body with a string message of n characters in clen bytes
MessageBody(clen, n) == Body(clen, "dict", TRUE, TRUE, n, TRUE, TRUE)

AdmitBodies ==
    { MessageBody(14, 0),
      MessageBody(32014, 32000),
      MessageBody(32015, 32001),
      MessageBody(256 * 1024, 5),
      MessageBody(256 * 1024 + 1, 5),
      MessageBody(MAX_MESSAGE_CHARS + 14, MAX_MESSAGE_CHARS),
      MessageBody(MAX_MESSAGE_CHARS + 15, MAX_MESSAGE_CHARS + 1),
      MessageBody(MAX_BODY_BYTES, 5),
      MessageBody(MAX_BODY_BYTES + 1, 5),
      Body(0, "bad", FALSE, FALSE, 0, TRUE, TRUE),
      Body(2, "other", FALSE, FALSE, 0, TRUE, TRUE),
      Body(7, "bad", FALSE, FALSE, 0, TRUE, TRUE),
      Body(2, "dict", FALSE, FALSE, 0, TRUE, TRUE),
      Body(13, "dict", TRUE, FALSE, 0, TRUE, TRUE),
      Body(31, "dict", TRUE, TRUE, 2, FALSE, TRUE),
      Body(28, "dict", TRUE, TRUE, 2, TRUE, FALSE) }

InitAdmit ==
    /\ gbody \in [1..MaxAdmitRequests -> AdmitBodies]
    /\ ServerUnused
    /\ ApplyUnused
    /\ RoundUnused
    /\ WarmUnused
    /\ AddrUnused
    /\ InitGatewayWith(2, "A", 0)

\* lines 320-364 for the body the request carries
AcquireBody(w) ==
    /\ greq[w].request_id \in DOMAIN gbody
    /\ Acquire(w, BodyKind(gbody[greq[w].request_id]))

NextAdmit ==
    \/ \E w \in Workers : PostBegin(w, "A", MaxAdmitRequests)
    \/ \E w \in Workers : AcquireBody(w)
    \/ \E w \in Workers : ChatReturn(w)
    \/ \E w \in Workers : Finally(w)

SpecAdmit == InitAdmit /\ [][NextAdmit]_vars

\* the request of worker w is past the guards
PastGuards(w) == gpc[w] \in {"chat", "finally"} /\ greq[w].acquired

\* handle_chat is running or has answered
Accepted(w) ==
    \/ gpc[w] = "chat"
    \/ gpc[w] = "finally" /\ greq[w].responses # <<>> /\ greq[w].responses[1].status = 200

\* the request was answered status/error by the guards, and handle_chat was not called
Rejected(w, status, error) ==
    /\ gpc[w] = "finally"
    /\ greq[w].responses =
           <<Response(status, greq[w].request_id, ErrorPayload(error), NoHeaders)>>

\* C32: the admission guards of POST /chat: an empty message is answered 400
\* INVALID_SCHEMA, a message of exactly 32,000 characters is accepted, one of 32,001
\* characters is answered 413, a body of 256 KiB + 1 bytes is answered 413, and a rejected
\* request never reaches handle_chat.
C32_AdmissionGuards ==
    \A w \in Workers :
        PastGuards(w) =>
            LET b == gbody[greq[w].request_id]
                message == b.json = "dict" /\ b.has_message /\ b.message_is_str
                           /\ b.session_id_ok /\ b.plan_id_ok
            IN  /\ b.clen = 256 * 1024 + 1 => Rejected(w, 413, "PAYLOAD_TOO_LARGE")
                /\ message /\ b.clen <= 256 * 1024 /\ b.message_len = 0
                       => Rejected(w, 400, "INVALID_SCHEMA")
                /\ message /\ b.clen <= 256 * 1024 /\ b.message_len = 32000 => Accepted(w)
                /\ message /\ b.clen <= 256 * 1024 /\ b.message_len = 32001
                       => Rejected(w, 413, "PAYLOAD_TOO_LARGE")

\* what the guards of the code do at its own limits
C32_GuardsAtCodeLimits ==
    \A w \in Workers :
        PastGuards(w) =>
            LET b == gbody[greq[w].request_id]
                message == b.json = "dict" /\ b.has_message /\ b.message_is_str
                           /\ b.session_id_ok /\ b.plan_id_ok
            IN  /\ b.clen > MAX_BODY_BYTES => Rejected(w, 413, "PAYLOAD_TOO_LARGE")
                /\ message /\ 0 < b.clen /\ b.clen <= MAX_BODY_BYTES
                       /\ b.message_len <= MAX_MESSAGE_CHARS => Accepted(w)
                /\ message /\ b.clen <= MAX_BODY_BYTES /\ b.message_len > MAX_MESSAGE_CHARS
                       => Rejected(w, 413, "PAYLOAD_TOO_LARGE")
                /\ b.clen <= MAX_BODY_BYTES /\ (b.clen = 0 \/ b.json = "dict")
                       /\ (b.clen = 0 \/ ~b.has_message \/ ~b.message_is_str)
                       => Rejected(w, 400, "INVALID_REQUEST")
                /\ 0 < b.clen /\ b.clen <= MAX_BODY_BYTES /\ b.json = "other"
                       => Rejected(w, 400, "INVALID_SCHEMA")


\* ---------------------------------------------------------------------------
\* run(): serve_forever on the main thread, SIGINT / SIGTERM handled by
\* _signal_handler; socketserver.BaseServer is modelled from its documented
\* behaviour (serve_forever polls __shutdown_request and sets __is_shut_down when
\* it leaves; shutdown sets the request and waits for __is_shut_down)
\* ---------------------------------------------------------------------------

MaxConnections == 4

MaxSignals == 2

Connections == 1..MaxConnections

InitShutdown ==
    /\ PlannerUnused
    /\ StoreUnused
    /\ TurnUnused
    /\ GatewayUnused
    /\ MemoryUnused
    /\ ToolsUnused
    /\ BodyUnused
    /\ ApplyUnused
    /\ RoundUnused
    /\ WarmUnused
    /\ AddrUnused
    /\ mainPc = "serving"
    /\ sigFrames = 0
    /\ stop_event = FALSE
    /\ shutdown_request = FALSE
    /\ is_shut_down = FALSE
    /\ conn = [c \in Connections |-> "none"]

\* a client connects: the kernel queues the connection on the listening socket
ClientConnect(c) ==
    /\ conn[c] = "none"
    /\ \A d \in 1..(c - 1) : conn[d] # "none"
    /\ conn' = [conn EXCEPT ![c] = "backlog"]
    /\ UNCHANGED <<mainPc, sigFrames, stop_event, shutdown_request, is_shut_down,
                   bodyVars, applyVars, roundVars, warmVars, addrVars, notOther>>

\* the main thread takes its next step.  In serve_forever: the loop is left when
\* __shutdown_request is set (the finally block clears it and sets __is_shut_down, then
\* run returns); otherwise a queued connection is accepted and handed to a new thread.
\* In a signal handler frame: shutdown() is blocked in __is_shut_down.wait() until the
\* event is set, then the handler returns to the frame it interrupted.
MainThreadStep ==
    /\ \/ mainPc = "serving"
       \/ mainPc = "shutdown_wait" /\ is_shut_down
    /\ IF mainPc = "shutdown_wait"
       THEN /\ sigFrames' = sigFrames - 1
            /\ mainPc' = IF sigFrames = 1 THEN "serving" ELSE "shutdown_wait"
            /\ UNCHANGED <<shutdown_request, is_shut_down, conn>>
       ELSE IF shutdown_request
       THEN /\ shutdown_request' = FALSE
            /\ is_shut_down' = TRUE
            /\ mainPc' = "returned"
            /\ UNCHANGED <<sigFrames, conn>>
       ELSE /\ \E c \in Connections :
                  /\ conn[c] = "backlog"
                  /\ \A d \in 1..(c - 1) : conn[d] # "backlog"
                  /\ conn' = [conn EXCEPT ![c] = "running"]
            /\ UNCHANGED <<mainPc, sigFrames, shutdown_request, is_shut_down>>
    /\ UNCHANGED <<stop_event, bodyVars, applyVars, roundVars, warmVars, addrVars, notOther>>

\* a request thread finishes its request
HandlerDone(c) ==
    /\ conn[c] = "running"
    /\ conn' = [conn EXCEPT ![c] = "done"]
    /\ UNCHANGED <<mainPc, sigFrames, stop_event, shutdown_request, is_shut_down,
                   bodyVars, applyVars, roundVars, warmVars, addrVars, notOther>>

\* SIGINT or SIGTERM: Python runs _signal_handler on the main thread, on top of whatever
\* the main thread was doing: stop_event.set(), then httpd.shutdown(), which sets
\* __shutdown_request and waits for __is_shut_down
Signal ==
    /\ mainPc \in {"serving", "shutdown_wait"}
    /\ sigFrames < MaxSignals
    /\ stop_event' = TRUE
    /\ shutdown_request' = TRUE
    /\ sigFrames' = sigFrames + 1
    /\ mainPc' = "shutdown_wait"
    /\ UNCHANGED <<is_shut_down, conn, bodyVars, applyVars, roundVars, warmVars, addrVars, notOther>>

NextShutdown ==
    \/ \E c \in Connections : ClientConnect(c)
    \/ MainThreadStep
    \/ \E c \in Connections : HandlerDone(c)
    \/ Signal

SpecShutdown == InitShutdown /\ [][NextShutdown]_vars

\* the main thread and the request threads are scheduled; signals and clients come as
\* they please
FairShutdown ==
    /\ SpecShutdown
    /\ WF_vars(MainThreadStep)
    /\ \A c \in Connections : WF_vars(HandlerDone(c))

\* C33: after SIGINT or SIGTERM while serving, the server eventually stops accepting
\* new connections and run() returns, and the requests in flight run to completion.
C33_SignalStopsServer ==
    /\ stop_event ~> mainPc = "returned"
    /\ [][stop_event => \A c \in Connections : conn'[c] = "running" => conn[c] = "running"]_vars
    /\ \A c \in Connections : (conn[c] = "running") ~> (conn[c] = "done")

\* what does hold: no connection is accepted after the signal and the requests in flight
\* run to completion
C33_StopsAcceptingAndDrains ==
    /\ [][stop_event => \A c \in Connections : conn'[c] = "running" => conn[c] = "running"]_vars
    /\ \A c \in Connections : (conn[c] = "running") ~> (conn[c] = "done")

\* the main thread is never again in serve_forever's loop once a signal came
C33_MainThreadBlockedForGood == stop_event => mainPc = "shutdown_wait"


\* ---------------------------------------------------------------------------
\* handle_chat: the batch loop as a whole
\* ---------------------------------------------------------------------------

PendingCount(plan) == Cardinality({k \in 1..Len(plan.steps) : plan.steps[k].status = "pending"})

ToolStepCount(plan) == Cardinality({k \in 1..Len(plan.steps) : plan.steps[k].type = "tool"})

\* C34: the batch loop of handle_chat terminates for every plan it can run: every
\* iteration moves at least one step out of pending, so the number of batches never
\* exceeds the number of tool steps of the plan.
C34_EveryBatchShrinksPending ==
    /\ [][BatchApplied => PendingCount(hplan'[1]) < PendingCount(hplan[1])]_vars
    /\ [](hplan # <<>> => hbatches <= ToolStepCount(hplan[1]))

\* the plans for which the loop does make progress: no two steps share an id
C34_ShrinksWithDistinctIds ==
    [][BatchApplied /\ (\A j, k \in 1..Len(hplan[1].steps) :
                            hplan[1].steps[j].id = hplan[1].steps[k].id => j = k)
          => PendingCount(hplan'[1]) < PendingCount(hplan[1])]_vars


\* ---------------------------------------------------------------------------
\* apply_tool_results on its own
\* ---------------------------------------------------------------------------

MaxApplySteps == 2

MaxApplyResults == 2

\* the steps after each result of the for loop: trace[i] holds the steps after result i
RECURSIVE ApplyTrace(_, _, _, _)
ApplyTrace(steps, tool_results, k, acc) ==
    IF k > Len(tool_results) THEN acc
    ELSE LET nxt == ApplyOne(steps, tool_results[k])
         IN  ApplyTrace(nxt, tool_results, k + 1, Append(acc, nxt))

\* a result some earlier call left on a step
OldResult ==
    [ok |-> TRUE, name |-> "ping", method |-> "get", error |-> "", step_id |-> <<>>,
     origin |-> "earlier", provider_error |-> ""]

ApplyStep(id, type, status) ==
    [id |-> id, title |-> "", type |-> type, depends_on |-> <<>>,
     tool |-> IF type = "tool" THEN PingTool ELSE NoTool,
     status |-> status,
     result |-> IF status = "pending" THEN NoResult ELSE <<OldResult>>]

ApplyStepChoices == {"a", "b"} \X {"tool", "note"} \X {"pending", "done", "failed"}

\* a router result for a ping call, tagged by handle_chat or not
ApplyResult(step_id, ok) ==
    [ok |-> ok, name |-> "ping", method |-> "get",
     error |-> IF ok THEN "" ELSE "TOOL_EXCEPTION", step_id |-> step_id,
     origin |-> "router", provider_error |-> ""]

ApplyResultChoices == {<<>>, <<"a">>, <<"b">>, <<"z">>} \X BOOLEAN

InitApply ==
    /\ PlannerUnused
    /\ StoreUnused
    /\ TurnUnused
    /\ GatewayUnused
    /\ MemoryUnused
    /\ ToolsUnused
    /\ BodyUnused
    /\ ServerUnused
    /\ RoundUnused
    /\ WarmUnused
    /\ AddrUnused
    /\ \E n \in 1..MaxApplySteps : \E ch \in [1..n -> ApplyStepChoices] :
       \E m \in 1..MaxApplyResults : \E rs \in [1..m -> ApplyResultChoices] :
           applyIn = <<[plan    |-> [NewPlan("msg", "t0") EXCEPT
                                        !.steps = [k \in 1..n |->
                                                      ApplyStep(ch[k][1], ch[k][2], ch[k][3])]],
                        results |-> [k \in 1..m |-> ApplyResult(rs[k][1], rs[k][2])]]>>
    /\ applyOut = <<>>

\* planner.apply_tool_results(plan, tool_results)
ApplyCall ==
    /\ applyIn # <<>>
    /\ applyOut = <<>>
    /\ applyOut' = <<[plan  |-> ApplyToolResults(applyIn[1].plan, applyIn[1].results),
                      trace |-> ApplyTrace(applyIn[1].plan.steps, applyIn[1].results, 1,
                                           <<>>)]>>
    /\ UNCHANGED <<applyIn, bodyVars, serverVars, roundVars, warmVars, addrVars, notOther>>

NextApply == ApplyCall

SpecApply == InitApply /\ [][NextApply]_vars

\* the steps as result i found them
StepsBefore(i) == IF i = 1 THEN applyIn[1].plan.steps ELSE applyOut[1].trace[i - 1]

Ids(steps) == [k \in 1..Len(steps) |-> steps[k].id]

\* C35: apply_tool_results changes the status and the result only of steps that were
\* pending tool steps when the result was applied: ok=true makes such a step done with the
\* result attached, ok=false makes it failed; every other step stays as it was, and so do
\* the order and the ids of the steps.
C35_OnlyPendingToolStepsChange ==
    applyOut # <<>> =>
        /\ applyOut[1].plan.steps = applyOut[1].trace[Len(applyIn[1].results)]
        /\ \A i \in 1..Len(applyIn[1].results) :
              LET before == StepsBefore(i)
                  after  == applyOut[1].trace[i]
                  r      == applyIn[1].results[i]
              IN  /\ Ids(after) = Ids(before)
                  /\ \A k \in 1..Len(before) :
                        after[k] # before[k] =>
                            /\ before[k].status = "pending"
                            /\ before[k].type = "tool"
                            /\ after[k] = [before[k] EXCEPT
                                              !.result = <<r>>,
                                              !.status = IF r.ok THEN "done" ELSE "failed"]

\* what does hold: a result changes at most one step, the one its _step_id names (the last
\* of them) or else the first pending tool step of its name and method, whatever the
\* status and type of that step
C35_OneTargetPerResult ==
    applyOut # <<>> =>
        \A i \in 1..Len(applyIn[1].results) :
            LET before == StepsBefore(i)
                after  == applyOut[1].trace[i]
                r      == applyIn[1].results[i]
            IN  /\ Ids(after) = Ids(before)
                /\ Cardinality({k \in 1..Len(before) : after[k] # before[k]}) <= 1
                /\ \A k \in 1..Len(before) :
                      after[k] # before[k] =>
                          /\ after[k] = [before[k] EXCEPT
                                            !.result = <<r>>,
                                            !.status = IF r.ok THEN "done" ELSE "failed"]
                          /\ \/ r.step_id = <<before[k].id>>
                             \/ before[k].status = "pending" /\ before[k].type = "tool"


\* ---------------------------------------------------------------------------
\* handle_chat: the plan of a done checkpoint
\* ---------------------------------------------------------------------------

\* the checkpoints on disk that carry status done
DoneCheckpoints == {f \in ckFiles : f.state.status = "done"}

\* step k waits for something that is not there: it is no tool step, or one of its
\* dependencies is not the id of a done step
Blocked(steps, k) ==
    \/ steps[k].type # "tool"
    \/ \E i \in 1..Len(steps[k].depends_on) :
          ~\E j \in 1..Len(steps) :
               steps[j].id = steps[k].depends_on[i] /\ steps[j].status = "done"

\* C36: whenever a turn writes a checkpoint with status done, no step of the plan is
\* ready: every step still pending is not a tool step, or a tool step with a dependency
\* that is not done.
C36_DoneCheckpointHasNoReadyStep ==
    \A f \in DoneCheckpoints :
        f.state.plan.has_steps =>
            \A k \in 1..Len(f.state.plan.steps) :
                f.state.plan.steps[k].status = "pending" => Blocked(f.state.plan.steps, k)

\* a done checkpoint of a plan whose second tool step still waits for the first, which
\* failed
C36_Witness ==
    \E f \in DoneCheckpoints :
        /\ f.state.plan.has_steps
        /\ Len(f.state.plan.steps) = 2
        /\ f.state.plan.steps[1].status = "failed"
        /\ f.state.plan.steps[2].status = "pending"
        /\ f.state.plan.steps[2].type = "tool"
        /\ f.state.plan.steps[2].depends_on = <<f.state.plan.steps[1].id>>


\* ---------------------------------------------------------------------------
\* handle_chat: results and the steps that issued the calls
\* ---------------------------------------------------------------------------

\* the router answered call k of the batch with result k: same tool, and one of its
\* three errors when the call did not run
AnswersCall(r, c) ==
    /\ r.name = c.name
    /\ r.method = CanonicalizeToolCall(c.name, c.method).method
    /\ r.ok => r.error = ""
    /\ ~r.ok => r.error \in {"INVALID_TOOL_CALL", "UNKNOWN_TOOL", "TOOL_EXCEPTION"}

\* C37: ToolRouter.execute returns exactly one result per call, in call order, and never
\* raises; hence the index-based _step_id tagging attaches every result to the step that
\* issued the call, and every step of a dispatched batch leaves pending.
C37_EveryResultReachesItsStep ==
    [][BatchApplied =>
          /\ Len(hresults) = Len(hcalls.tool_calls)
          /\ \A k \in 1..Len(hresults) :
                /\ AnswersCall(hresults[k], hcalls.tool_calls[k])
                /\ hplan'[1].steps[hcalls.pos[k]].status # "pending"
                /\ hplan'[1].steps[hcalls.pos[k]].result
                       = <<[hresults[k] EXCEPT !.step_id = <<hplan[1].steps[hcalls.pos[k]].id>>]>>]_vars

\* the router's part alone: one result per call, in call order
C37_RouterAnswersInOrder ==
    hpc = "dispatch" =>
        /\ Len(hresults) <= Len(hcalls.tool_calls)
        /\ \A k \in 1..Len(hresults) : AnswersCall(hresults[k], hcalls.tool_calls[k])


\* ---------------------------------------------------------------------------
\* PlanStateStore: save, load and delete, one call after the other
\* ---------------------------------------------------------------------------

\* the characters of the model's plan ids that path_for keeps: ch.isalnum() or one of
\* "-", "_", "."
KeptChars == {"a", "b", "l", "n", "p", "-", "_", "."}

RECURSIVE Safe(_)
Safe(plan_id) ==
    IF plan_id = <<>> THEN <<>>
    ELSE IF Head(plan_id) \in KeptChars THEN <<Head(plan_id)>> \o Safe(Tail(plan_id))
    ELSE Safe(Tail(plan_id))

\* mutant: the plan id itself names the file
path_for_raw(plan_id) == plan_id \o <<".json">>

\* PlanStateStore.path_for, without the root directory
path_for(plan_id) ==
    (IF Safe(plan_id) = <<>> THEN <<"p", "l", "a", "n">> ELSE Safe(plan_id)) \o <<".json">>

\* plan ids as sequences of characters
RoundPlanIds ==
    {<<"a", "b">>, <<"a", "/", "b">>, <<"p", "l", "a", "n">>, <<"/">>}

RoundPlans == {"plan1", "plan2"}

InitRound ==
    /\ PlannerUnused
    /\ StoreUnused
    /\ TurnUnused
    /\ GatewayUnused
    /\ MemoryUnused
    /\ ToolsUnused
    /\ BodyUnused
    /\ ServerUnused
    /\ ApplyUnused
    /\ WarmUnused
    /\ AddrUnused
    /\ psFiles = <<>>
    /\ psLast = NoCall
    /\ psSaved = <<>>

Without(f, x) == [y \in DOMAIN f \ {x} |-> f[y]]

\* save(state): the file of path_for(state["plan_id"]) holds the state
StoreSave(plan_id, plan) ==
    LET state == [plan_id |-> plan_id, plan |-> plan]
    IN  /\ psFiles' = (path_for(plan_id) :> state) @@ psFiles
        /\ psLast' = [NoCall EXCEPT !.op = "save", !.plan_id = plan_id, !.ok = TRUE]
        /\ psSaved' = (plan_id :> state) @@ psSaved
        /\ UNCHANGED <<bodyVars, serverVars, applyVars, warmVars, addrVars, notOther>>

\* load(plan_id): FileNotFoundError, or the state in the file
StoreLoad(plan_id) ==
    /\ psLast' = IF path_for(plan_id) \in DOMAIN psFiles
                 THEN [NoCall EXCEPT !.op = "load", !.plan_id = plan_id, !.ok = TRUE,
                                     !.state = <<psFiles[path_for(plan_id)]>>]
                 ELSE [NoCall EXCEPT !.op = "load", !.plan_id = plan_id,
                                     !.error = "FileNotFoundError"]
    /\ UNCHANGED <<psFiles, psSaved, bodyVars, serverVars, applyVars, warmVars, addrVars, notOther>>

\* delete(plan_id): the file is removed if it is there
StoreDelete(plan_id) ==
    /\ psFiles' = Without(psFiles, path_for(plan_id))
    /\ psLast' = [NoCall EXCEPT !.op = "delete", !.plan_id = plan_id, !.ok = TRUE]
    /\ psSaved' = Without(psSaved, plan_id)
    /\ UNCHANGED <<bodyVars, serverVars, applyVars, warmVars, addrVars, notOther>>

NextRound ==
    \/ \E id \in RoundPlanIds : \E plan \in RoundPlans : StoreSave(id, plan)
    \/ \E id \in RoundPlanIds : StoreLoad(id)
    \/ \E id \in RoundPlanIds : StoreDelete(id)

SpecRound == InitRound /\ [][NextRound]_vars

\* C38: the checkpoint store is a round trip: for any sequence of save, load and delete
\* calls, load(P) returns the state most recently saved under P, with the same plan_id
\* and plan, and saving or deleting under another plan id Q never changes what load(P)
\* returns.
C38_LoadReturnsLastSaveOfSameId ==
    psLast.op = "load" =>
        IF psLast.plan_id \in DOMAIN psSaved
        THEN /\ psLast.ok
             /\ psLast.state = <<psSaved[psLast.plan_id]>>
             /\ psLast.state[1].plan_id = psLast.plan_id
        ELSE ~psLast.ok /\ psLast.error = "FileNotFoundError"

\* what the store does guarantee: load(P) returns what was last saved to the file of P,
\* under whichever plan id
C38_LoadReturnsLastSaveOfSameFile ==
    psLast.op = "load" =>
        LET same == {q \in DOMAIN psSaved : path_for(q) = path_for(psLast.plan_id)}
        IN  /\ psLast.ok => /\ same # {}
                            /\ path_for(psLast.state[1].plan_id) = path_for(psLast.plan_id)
                            /\ psLast.state[1].plan \in RoundPlans
            /\ ~psLast.ok => psLast.error = "FileNotFoundError"


\* ---------------------------------------------------------------------------
\* MasterAgent: the warmup, called from concurrent handle_chat calls
\* ---------------------------------------------------------------------------

NumCallers == 2

Callers == 1..NumCallers

\* the _run thread started by caller c holds the lock under the number NumCallers + c
Runner(c) == NumCallers + c

NoSnap == <<>>

NoLocals == [ok |-> FALSE, ms |-> 0, err |-> "", set |-> FALSE]

\* mutant: with self._warmup_lock does not wait
LockFreeAlways(holder) == TRUE

\* with self._warmup_lock: the lock can be taken when no thread holds it
LockFree(holder) == holder = 0

\* what llm.chat of the warmup can come to: ok, or an error dict; with the milliseconds
WarmupOutcomes ==
    {[ok |-> TRUE, ms |-> 0, err |-> "", set |-> TRUE],
     [ok |-> TRUE, ms |-> 7, err |-> "", set |-> TRUE],
     [ok |-> FALSE, ms |-> 7, err |-> "LLM_EXCEPTION", set |-> TRUE]}

InitWarmup ==
    /\ PlannerUnused
    /\ StoreUnused
    /\ TurnUnused
    /\ GatewayUnused
    /\ MemoryUnused
    /\ ToolsUnused
    /\ BodyUnused
    /\ ServerUnused
    /\ ApplyUnused
    /\ RoundUnused
    /\ AddrUnused
    /\ wpc = [c \in Callers |-> "idle"]
    /\ ensured = [c \in Callers |-> FALSE]
    /\ rpc = [c \in Callers |-> "none"]
    /\ rloc = [c \in Callers |-> NoLocals]
    /\ warmup_lock = 0
    /\ warmup = WarmupInitial
    /\ wChats = 0
    /\ wSnap = [c \in Callers |-> NoSnap]

\* handle_chat calls ensure_warmup_async: with self._warmup_lock
EnsureAcquire(c) ==
    /\ wpc[c] = "idle"
    /\ ~ensured[c]
    /\ LockFree(warmup_lock)
    /\ warmup_lock' = c
    /\ wpc' = [wpc EXCEPT ![c] = "ensure_test"]
    /\ UNCHANGED <<ensured, rpc, rloc, warmup, wChats, wSnap,
                   bodyVars, serverVars, applyVars, roundVars, addrVars, notOther>>

\* if self._warmup_started: return
EnsureTest(c) ==
    /\ wpc[c] = "ensure_test"
    /\ IF warmup.started
       THEN /\ warmup_lock' = 0
            /\ wpc' = [wpc EXCEPT ![c] = "idle"]
            /\ ensured' = [ensured EXCEPT ![c] = TRUE]
       ELSE /\ wpc' = [wpc EXCEPT ![c] = "ensure_set"]
            /\ UNCHANGED <<warmup_lock, ensured>>
    /\ UNCHANGED <<rpc, rloc, warmup, wChats, wSnap,
                   bodyVars, serverVars, applyVars, roundVars, addrVars, notOther>>

\* self._warmup_started = True, and the end of the with block
EnsureSet(c) ==
    /\ wpc[c] = "ensure_set"
    /\ warmup' = [warmup EXCEPT !.started = TRUE]
    /\ warmup_lock' = 0
    /\ wpc' = [wpc EXCEPT ![c] = "spawn"]
    /\ UNCHANGED <<ensured, rpc, rloc, wChats, wSnap,
                   bodyVars, serverVars, applyVars, roundVars, addrVars, notOther>>

\* threading.Thread(target=_run, daemon=True).start()
Spawn(c) ==
    /\ wpc[c] = "spawn"
    /\ rpc' = [rpc EXCEPT ![c] = "chat"]
    /\ wpc' = [wpc EXCEPT ![c] = "idle"]
    /\ ensured' = [ensured EXCEPT ![c] = TRUE]
    /\ UNCHANGED <<rloc, warmup_lock, warmup, wChats, wSnap,
                   bodyVars, serverVars, applyVars, roundVars, addrVars, notOther>>

\* _run: the warmup chat, up to ms
RunChat(c) ==
    /\ rpc[c] = "chat"
    /\ wChats' = wChats + 1
    /\ \E o \in WarmupOutcomes : rloc' = [rloc EXCEPT ![c] = o]
    /\ rpc' = [rpc EXCEPT ![c] = "computed"]
    /\ UNCHANGED <<wpc, ensured, warmup_lock, warmup, wSnap,
                   bodyVars, serverVars, applyVars, roundVars, addrVars, notOther>>

\* _run: with self._warmup_lock
RunAcquire(c) ==
    /\ rpc[c] = "computed"
    /\ LockFree(warmup_lock)
    /\ warmup_lock' = Runner(c)
    /\ rpc' = [rpc EXCEPT ![c] = "set_done"]
    /\ UNCHANGED <<wpc, ensured, rloc, warmup, wChats, wSnap,
                   bodyVars, serverVars, applyVars, roundVars, addrVars, notOther>>

\* _run: the four assignments under the lock, one at a time, then the lock is given back
RunAssign(c) ==
    /\ rpc[c] \in {"set_done", "set_ok", "set_ms", "set_error"}
    /\ CASE rpc[c] = "set_done" ->
                /\ warmup' = [warmup EXCEPT !.done = TRUE]
                /\ rpc' = [rpc EXCEPT ![c] = "set_ok"]
                /\ UNCHANGED warmup_lock
         [] rpc[c] = "set_ok" ->
                /\ warmup' = [warmup EXCEPT !.ok = rloc[c].ok]
                /\ rpc' = [rpc EXCEPT ![c] = "set_ms"]
                /\ UNCHANGED warmup_lock
         [] rpc[c] = "set_ms" ->
                /\ warmup' = [warmup EXCEPT !.ms = rloc[c].ms]
                /\ rpc' = [rpc EXCEPT ![c] = "set_error"]
                /\ UNCHANGED warmup_lock
         [] OTHER ->
                /\ warmup' = [warmup EXCEPT !.error = rloc[c].err]
                /\ rpc' = [rpc EXCEPT ![c] = "finished"]
                /\ warmup_lock' = 0
    /\ UNCHANGED <<wpc, ensured, rloc, wChats, wSnap,
                   bodyVars, serverVars, applyVars, roundVars, addrVars, notOther>>

\* warmup_status: with self._warmup_lock
StatusAcquire(c) ==
    /\ wpc[c] = "idle"
    /\ LockFree(warmup_lock)
    /\ warmup_lock' = c
    /\ wpc' = [wpc EXCEPT ![c] = "status"]
    /\ UNCHANGED <<ensured, rpc, rloc, warmup, wChats, wSnap,
                   bodyVars, serverVars, applyVars, roundVars, addrVars, notOther>>

\* warmup_status: the dict of the five fields is built and returned
StatusRead(c) ==
    /\ wpc[c] = "status"
    /\ wSnap' = [wSnap EXCEPT ![c] = <<warmup>>]
    /\ warmup_lock' = 0
    /\ wpc' = [wpc EXCEPT ![c] = "idle"]
    /\ UNCHANGED <<ensured, rpc, rloc, warmup, wChats,
                   bodyVars, serverVars, applyVars, roundVars, addrVars, notOther>>

NextWarmup ==
    \/ \E c \in Callers : EnsureAcquire(c)
    \/ \E c \in Callers : EnsureTest(c)
    \/ \E c \in Callers : EnsureSet(c)
    \/ \E c \in Callers : Spawn(c)
    \/ \E c \in Callers : RunChat(c)
    \/ \E c \in Callers : RunAcquire(c)
    \/ \E c \in Callers : RunAssign(c)
    \/ \E c \in Callers : StatusAcquire(c)
    \/ \E c \in Callers : StatusRead(c)

SpecWarmup == InitWarmup /\ [][NextWarmup]_vars

\* the snapshot shows the three result fields as the warmup of some _run thread left them
FromCompletedWarmup(snap) ==
    \E c \in Callers :
        /\ rloc[c].set
        /\ snap.ok = rloc[c].ok /\ snap.ms = rloc[c].ms /\ snap.error = rloc[c].err

\* C39: over concurrent handle_chat calls on one MasterAgent at most one warmup chat is
\* ever issued, and every warmup_status snapshot is consistent: warmup_done implies
\* warmup_started, and warmup_ok, warmup_ms and warmup_error are all at their initial
\* values or all from the completed warmup.
C39_OneWarmupConsistentStatus ==
    /\ wChats <= 1
    /\ \A c \in DOMAIN wSnap :
          wSnap[c] # NoSnap =>
              LET snap == wSnap[c][1]
              IN  /\ snap.done => snap.started
                  /\ IF snap.done THEN FromCompletedWarmup(snap)
                     ELSE /\ snap.ok = WarmupInitial.ok
                          /\ snap.ms = WarmupInitial.ms
                          /\ snap.error = WarmupInitial.error

\* both callers went through ensure_warmup_async, one warmup chat failed, and a snapshot
\* taken afterwards shows it done with its error
C39_Witness ==
    /\ wChats = 1
    /\ \A c \in Callers : ensured[c]
    /\ \E c \in Callers :
          /\ wSnap[c] # NoSnap
          /\ wSnap[c][1].done /\ ~wSnap[c][1].ok /\ wSnap[c][1].error = "LLM_EXCEPTION"
    /\ \E c \in Callers : wSnap[c] # NoSnap /\ wSnap[c][1].started /\ ~wSnap[c][1].done


\* ---------------------------------------------------------------------------
\* BrowserTools._is_blocked_ip on the addresses getaddrinfo returns
\* ---------------------------------------------------------------------------

HexDigits == <<"0", "1", "2", "3", "4", "5", "6", "7", "8", "9", "a", "b", "c", "d", "e", "f">>

\* a group of an IPv6 address from its four hexadecimal digits
Hextet(d1, d2, d3, d4) == ((d1 * 16 + d2) * 16 + d3) * 16 + d4

\* the text of a group as inet_ntop prints it: lower case, no leading zeros
RECURSIVE HexText(_)
HexText(n) ==
    IF n < 16 THEN <<HexDigits[n + 1]>>
    ELSE HexText(n \div 16) \o <<HexDigits[(n % 16) + 1]>>

RECURSIVE JoinHex(_)
JoinHex(groups) ==
    IF groups = <<>> THEN <<>>
    ELSE IF Len(groups) = 1 THEN HexText(groups[1])
    ELSE HexText(groups[1]) \o <<":">> \o JoinHex(Tail(groups))

\* the number of zero groups in a row from position i on
RECURSIVE ZeroRun(_, _)
ZeroRun(groups, i) ==
    IF i > Len(groups) \/ groups[i] # 0 THEN 0 ELSE 1 + ZeroRun(groups, i + 1)

\* the text getaddrinfo returns for the IPv6 address with these eight groups: the first
\* longest run of two or more zero groups is written "::"
Ipv6Text(groups) ==
    LET long == {i \in 1..8 : ZeroRun(groups, i) >= 2}
    IN  IF long = {} THEN JoinHex(groups)
        ELSE LET i == CHOOSE j \in long :
                          \A k \in long : \/ ZeroRun(groups, k) < ZeroRun(groups, j)
                                          \/ ZeroRun(groups, k) = ZeroRun(groups, j) /\ j <= k
                 n == ZeroRun(groups, i)
             IN  JoinHex(SubSeq(groups, 1, i - 1)) \o <<":", ":">>
                     \o JoinHex(SubSeq(groups, i + n, 8))

\* the str handed to _is_blocked_ip for an address; of a dotted quad the model keeps the
\* first two of the four decimal parts that _is_blocked_ipv4 reads
AddrText(addr) ==
    IF addr.family = 4 THEN Ip4(addr.groups[1], addr.groups[2])
    ELSE Ip6(Ipv6Text(addr.groups))

Addr4First == {0, 1, 9, 10, 11, 99, 100, 101, 126, 127, 128, 169, 172, 192, 255}

Addr4Second == {0, 15, 16, 31, 32, 63, 64, 127, 128, 168, 169, 253, 254, 255}

\* first groups around the edges of fe80::/10 and fc00::/7, and others
Addr6First ==
    {0, Hextet(0, 0, 15, 12), Hextet(0, 0, 15, 13), Hextet(0, 15, 12, 1),
     Hextet(2, 0, 0, 1), Hextet(15, 11, 15, 15), Hextet(15, 12, 0, 0),
     Hextet(15, 13, 1, 2), Hextet(15, 13, 15, 15), Hextet(15, 14, 0, 0),
     Hextet(15, 14, 7, 15), Hextet(15, 14, 8, 0), Hextet(15, 14, 8, 1),
     Hextet(15, 14, 11, 15), Hextet(15, 14, 12, 0), Hextet(15, 15, 0, 2)}

InitAddr ==
    /\ PlannerUnused
    /\ StoreUnused
    /\ TurnUnused
    /\ GatewayUnused
    /\ MemoryUnused
    /\ ToolsUnused
    /\ BodyUnused
    /\ ServerUnused
    /\ ApplyUnused
    /\ RoundUnused
    /\ WarmUnused
    /\ \/ \E a \in Addr4First : \E b \in Addr4Second :
              addrIn = <<[family |-> 4, groups |-> <<a, b, 0, 1>>]>>
       \/ \E h \in Addr6First : \E g \in {0, 1} : \E t \in {0, 1, 2} :
              /\ h = 0 => g = 0 /\ t \in {0, 1}
              /\ addrIn = <<[family |-> 6, groups |-> <<h, g, 0, 0, 0, 0, 0, t>>]>>
    /\ addrOut = <<>>

\* self._is_blocked_ip(ip)
BlockedCheck ==
    /\ addrIn # <<>>
    /\ addrOut = <<>>
    /\ addrOut' = <<IsBlockedIp(AddrText(addrIn[1]))>>
    /\ UNCHANGED <<addrIn, bodyVars, serverVars, applyVars, roundVars, warmVars, notOther>>

NextAddr == BlockedCheck

SpecAddr == InitAddr /\ [][NextAddr]_vars

Pow2(n) == 2 ^ n

\* the address lies in the IPv4 network a.b.0.0/len, len up to 16: the first len bits of
\* the address are those of the network
InNet4(addr, a, b, len) ==
    /\ addr.family = 4
    /\ (addr.groups[1] * Pow2(8) + addr.groups[2]) \div Pow2(16 - len)
       = (a * Pow2(8) + b) \div Pow2(16 - len)

\* the address lies in the IPv6 network whose first group is first, of a prefix length
\* len up to 16
InNet6(addr, first, len) ==
    /\ addr.family = 6
    /\ addr.groups[1] \div Pow2(16 - len) = first \div Pow2(16 - len)

InListed4(addr) ==
    \/ InNet4(addr, 0, 0, 8) \/ InNet4(addr, 10, 0, 8) \/ InNet4(addr, 127, 0, 8)
    \/ InNet4(addr, 169, 254, 16) \/ InNet4(addr, 172, 16, 12)
    \/ InNet4(addr, 192, 168, 16) \/ InNet4(addr, 100, 64, 10)

InListed6(addr) ==
    \/ addr.family = 6 /\ addr.groups = <<0, 0, 0, 0, 0, 0, 0, 1>>
    \/ InNet6(addr, Hextet(15, 14, 8, 0), 10)
    \/ InNet6(addr, Hextet(15, 12, 0, 0), 7)

\* C40: the address check returns blocked exactly for the addresses in the listed ranges:
\* IPv4 0/8, 10/8, 127/8, 169.254/16, 172.16/12, 192.168/16, 100.64/10 and IPv6 ::1,
\* fe80::/10, fc00::/7; no address outside these ranges is blocked.
C40_BlockedExactlyListedRanges ==
    addrOut # <<>> => (addrOut[1] <=> (InListed4(addrIn[1]) \/ InListed6(addrIn[1])))

\* the IPv4 half of the check is exact
C40_Ipv4Exact ==
    (addrOut # <<>> /\ addrIn[1].family = 4) => (addrOut[1] <=> InListed4(addrIn[1]))

\* of IPv6 the check blocks ::1, the network fe80::/16 and every text that begins with fc
\* or fd
C40_Ipv6AsCoded ==
    (addrOut # <<>> /\ addrIn[1].family = 6) =>
        (addrOut[1] <=>
            \/ addrIn[1].groups = <<0, 0, 0, 0, 0, 0, 0, 1>>
            \/ addrIn[1].groups[1] = Hextet(15, 14, 8, 0)
            \/ InNet6(addrIn[1], Hextet(15, 12, 0, 0), 7)
            \/ addrIn[1].groups[1] \div 16 \in {Hextet(0, 0, 15, 12), Hextet(0, 0, 15, 13)}
            \/ addrIn[1].groups[1] \in {Hextet(0, 0, 15, 12), Hextet(0, 0, 15, 13)})

====
